---- MODULE Spec2Model ----
(***************************************************************************)
(* Model of the NanoGPT model-catalog resolution path:                     *)
(*   prepareLanguageModelChatInformation -> ensureApiKey -> fetchModels    *)
(*     -> fetchModelsFromEndpoint -> retryWithBackoff -> fetch + validate  *)
(* Every await of the TypeScript code is a step boundary of the model.     *)
(***************************************************************************)
EXTENDS Integers, Sequences, FiniteSets, TLC

(* ------------------------------ bounds --------------------------------- *)
\* longest data array a mocked upstream response carries
MaxEntries == 2

(* ------------------------- program constants --------------------------- *)
DEFAULT_CONTEXT_LENGTH == 128000
DEFAULT_MAX_OUTPUT_TOKENS == 16000

RETRY_CONFIG == [maxAttempts |-> 3, delayMs |-> 1000, backoffMultiplier |-> 2]

\* type ModelType = "all" | "premium" | "subscription"
ModelType == {"all", "premium", "subscription"}

ENDPOINT_CONFIGS ==
  [t \in ModelType |->
     [category |-> t,
      displayName |-> CASE t = "all" -> "All Models"
                        [] t = "premium" -> "Premium Models"
                        [] OTHER -> "Subscription Models"]]

DEFAULT_CAPABILITIES == [toolCalling |-> TRUE, imageInput |-> FALSE]

ModelFeatureSpec == {"tools", "json_mode", "structured_outputs", "web_search", "reasoning"}

(* ------------------- loosely typed JSON values ------------------------- *)
\* A JSON field is a pair <<tag, value>>; the value of a tag that carries
\* none is a filler of the field's own type so that fields stay comparable.
StrF(s)  == <<"str", s>>
NoStr    == <<"absent", "">>
BadStr   == <<"num", "">>          \* a number where a string is expected
NumF(n)  == <<"num", n>>
NullNum  == <<"null", 0>>
NoNum    == <<"absent", 0>>
BadNum   == <<"str", 0>>           \* a string where a number is expected
BoolF(b) == <<"bool", b>>
NoBool   == <<"absent", FALSE>>
ArrF(S)  == <<"arr", S>>
NoArr    == <<"absent", {}>>

Tag(f) == f[1]
Val(f) == f[2]

(* --------------------------- response schema --------------------------- *)
\* NanoGPTModelDetailsSchema: does one raw data entry parse?
NanoGPTModelDetailsSchema(e) ==
  /\ Tag(e.id) = "str"
  /\ Tag(e.name) = "str"
  /\ Tag(e.object) \in {"str", "absent"}
  /\ Tag(e.vision) \in {"bool", "absent"}
  /\ Tag(e.context_length) \in {"num", "null", "absent"}
  /\ Tag(e.max_output_length) \in {"num", "null", "absent"}
  /\ \/ Tag(e.supported_features) = "absent"
     \/ /\ Tag(e.supported_features) = "arr"
        /\ Val(e.supported_features) \subseteq ModelFeatureSpec

\* the value zod produces for a parsed entry: object defaults to "model"
ParsedEntry(e) ==
  [e EXCEPT !.object = IF Tag(e.object) = "absent" THEN StrF("model") ELSE e.object]

\* NanoGPTModelsResponseSchema: does the raw body parse?
NanoGPTModelsResponseSchema(body) ==
  /\ Tag(body.object) = "str"
  /\ body.isArray
  /\ \A i \in 1..Len(body.data) : NanoGPTModelDetailsSchema(body.data[i])

(* ------------------------------- errors -------------------------------- *)
\* An Error object: what failed, for which category, on which attempt, and its
\* message.  Two failures of the same kind on different attempts are different
\* objects.  A message is the sequence of the fragments its template literal
\* concatenates; a test's regular expression matches it when it is a fragment.
MkError(kind, category, n, message) ==
  [kind |-> kind, category |-> category, attempt |-> n, isError |-> TRUE,
   message |-> message]

NoError ==
  [kind |-> "none", category |-> "none", attempt |-> 0, isError |-> TRUE,
   message |-> <<>>]

\* assert.match(error.message, /pattern/)
MessageMatches(message, pattern) == \E i \in 1..Len(message) : message[i] = pattern

\* `HTTP ${response.status}: ${response.statusText} - ${errorText}`
HttpMessage(status) ==
  <<"HTTP ", ToString(status), ": ", "<statusText>", " - ", "<errorText>">>

\* `API response validation failed: ${err.message}`
ValidationMessage == <<"API response validation failed", ": ", "<zod issues>">>

\* "No models data found in API response"
EmptyMessage == <<"No models data found", " in API response">>

\* the TypeError fetch rejects with
NetworkMessage == <<"fetch failed">>

\* lastError = error instanceof Error ? error : new Error(String(error))
ToError(e) ==
  IF e.isError THEN e ELSE [e EXCEPT !.kind = "stringified", !.isError = TRUE]

(* ------------------ the operation passed to retryWithBackoff ----------- *)
\* mutant: every model is stamped with the category of the default endpoint
Categorize_AlwaysAll(data, category) ==
  [i \in 1..Len(data) |->
     [id |-> ParsedEntry(data[i]).id,
      name |-> ParsedEntry(data[i]).name,
      object |-> ParsedEntry(data[i]).object,
      vision |-> ParsedEntry(data[i]).vision,
      context_length |-> ParsedEntry(data[i]).context_length,
      max_output_length |-> ParsedEntry(data[i]).max_output_length,
      supported_features |-> ParsedEntry(data[i]).supported_features,
      endpoint |-> "all",
      category |-> "all"]]

\* data.data.map(model => ({...model, endpoint, category}))
Categorize(data, category) ==
  [i \in 1..Len(data) |->
     [id |-> ParsedEntry(data[i]).id,
      name |-> ParsedEntry(data[i]).name,
      object |-> ParsedEntry(data[i]).object,
      vision |-> ParsedEntry(data[i]).vision,
      context_length |-> ParsedEntry(data[i]).context_length,
      max_output_length |-> ParsedEntry(data[i]).max_output_length,
      supported_features |-> ParsedEntry(data[i]).supported_features,
      endpoint |-> category,
      category |-> category]]

\* mutant: a validated response with no entries is returned as it is
FetchOperation_EmptyAccepted(resp, category) ==
  IF ~resp.transport
    THEN [ok |-> FALSE, kind |-> "network", message |-> NetworkMessage, models |-> <<>>]
  ELSE IF ~resp.ok
    THEN [ok |-> FALSE, kind |-> "http", message |-> HttpMessage(resp.status),
          models |-> <<>>]
  ELSE IF ~NanoGPTModelsResponseSchema(resp.json)
    THEN [ok |-> FALSE, kind |-> "validation", message |-> ValidationMessage,
          models |-> <<>>]
  ELSE [ok |-> TRUE, kind |-> "none", message |-> <<>>,
        models |-> Categorize(resp.json.data, category)]

\* The closure of fetchModelsFromEndpoint applied to one upstream response:
\* either the categorized models or the kind of Error it throws.
FetchOperation(resp, category) ==
  IF ~resp.transport
    THEN [ok |-> FALSE, kind |-> "network", message |-> NetworkMessage, models |-> <<>>]
  ELSE IF ~resp.ok
    THEN [ok |-> FALSE, kind |-> "http", message |-> HttpMessage(resp.status),
          models |-> <<>>]
  ELSE IF ~NanoGPTModelsResponseSchema(resp.json)
    THEN [ok |-> FALSE, kind |-> "validation", message |-> ValidationMessage,
          models |-> <<>>]
  ELSE IF Len(resp.json.data) = 0
    THEN [ok |-> FALSE, kind |-> "empty", message |-> EmptyMessage, models |-> <<>>]
  ELSE [ok |-> TRUE, kind |-> "none", message |-> <<>>,
        models |-> Categorize(resp.json.data, category)]

\* Math.pow(base, e) for the non-negative integer exponents the retry loop uses
RECURSIVE Pow(_, _)
Pow(base, e) == IF e = 0 THEN 1 ELSE base * Pow(base, e - 1)

\* mutant: the exponent is the attempt number itself
BackoffDelay_NoMinusOne(config, n) == config.delayMs * Pow(config.backoffMultiplier, n)

\* delay = config.delayMs * Math.pow(config.backoffMultiplier, attempt - 1)
BackoffDelay(config, n) == config.delayMs * Pow(config.backoffMultiplier, n - 1)

(* ---------------------------- normalization ---------------------------- *)
\* mutant: the limits are defaulted with || instead of ??, so 0 is replaced too
ModelInfo_FalsyLimits(m) ==
  [id |-> Val(m.id),
   name |-> Val(m.name),
   tooltipCategory |-> m.category,
   maxInputTokens |-> IF Tag(m.context_length) = "num" /\ Val(m.context_length) # 0
                        THEN Val(m.context_length) ELSE DEFAULT_CONTEXT_LENGTH,
   maxOutputTokens |-> IF Tag(m.max_output_length) = "num"
                            /\ Val(m.max_output_length) # 0
                         THEN Val(m.max_output_length) ELSE DEFAULT_MAX_OUTPUT_TOKENS,
   capabilities |-> [toolCalling |-> TRUE,
                     imageInput |-> IF Tag(m.vision) = "bool"
                                      THEN Val(m.vision) ELSE FALSE]]

\* mutant: toolCalling is read from supported_features
ModelInfo_ToolsFromFeatures(m) ==
  [id |-> Val(m.id),
   name |-> Val(m.name),
   tooltipCategory |-> m.category,
   maxInputTokens |-> IF Tag(m.context_length) = "num"
                        THEN Val(m.context_length) ELSE DEFAULT_CONTEXT_LENGTH,
   maxOutputTokens |-> IF Tag(m.max_output_length) = "num"
                         THEN Val(m.max_output_length) ELSE DEFAULT_MAX_OUTPUT_TOKENS,
   capabilities |-> [toolCalling |-> "tools" \in Val(m.supported_features),
                     imageInput |-> IF Tag(m.vision) = "bool"
                                      THEN Val(m.vision) ELSE FALSE]]

\* the modelInfo built for one model inside the try block
ModelInfo(m) ==
  [id |-> Val(m.id),
   name |-> Val(m.name),
   tooltipCategory |-> m.category,
   maxInputTokens |-> IF Tag(m.context_length) = "num"
                        THEN Val(m.context_length) ELSE DEFAULT_CONTEXT_LENGTH,
   maxOutputTokens |-> IF Tag(m.max_output_length) = "num"
                         THEN Val(m.max_output_length) ELSE DEFAULT_MAX_OUTPUT_TOKENS,
   capabilities |-> [toolCalling |-> TRUE,
                     imageInput |-> IF Tag(m.vision) = "bool"
                                      THEN Val(m.vision) ELSE FALSE]]

\* the for loop over models: an entry with a falsy id is skipped (continue)
RECURSIVE NormalizeModels(_)
NormalizeModels(models) ==
  IF models = <<>> THEN <<>>
  ELSE IF Val(Head(models).id) = ""
    THEN NormalizeModels(Tail(models))
    ELSE <<ModelInfo(Head(models))>> \o NormalizeModels(Tail(models))

(* ------------------------------ API key -------------------------------- *)
\* String.prototype.trim on a string held as a sequence of characters
RECURSIVE TrimStart(_)
TrimStart(t) == IF t # <<>> /\ Head(t) = " " THEN TrimStart(Tail(t)) ELSE t

RECURSIVE TrimEnd(_)
TrimEnd(t) ==
  IF t # <<>> /\ t[Len(t)] = " " THEN TrimEnd(SubSeq(t, 1, Len(t) - 1)) ELSE t

Trim(t) == TrimEnd(TrimStart(t))

NoSecret == [present |-> FALSE, val |-> <<>>]
Secret(t) == [present |-> TRUE, val |-> t]

\* !apiKey on the value secrets.get returned
Falsy(sec) == ~sec.present \/ sec.val = <<>>

\* what the user can do with the input box: dismiss it, or submit a text
EnteredInputs ==
  {[given |-> FALSE, text |-> <<>>]} \cup
  {[given |-> TRUE, text |-> t] : t \in {<<>>, <<" ">>, <<"k">>, <<" ", "k", " ">>}}

(* ------------------------- upstream responses -------------------------- *)
FullEntry(id) ==
  [id |-> StrF(id), name |-> StrF("n"), object |-> StrF("model"),
   vision |-> BoolF(TRUE), context_length |-> NumF(4096),
   max_output_length |-> NumF(1024), supported_features |-> ArrF({"tools"})]

MinimalEntry(id) ==
  [id |-> StrF(id), name |-> StrF("n"), object |-> NoStr,
   vision |-> NoBool, context_length |-> NullNum,
   max_output_length |-> NoNum, supported_features |-> NoArr]

NoIdEntry == [FullEntry("m1") EXCEPT !.id = NoStr]

EmptyIdEntry == [MinimalEntry("") EXCEPT !.vision = BoolF(FALSE)]

RawEntries == {FullEntry("m1"), MinimalEntry("m2"), NoIdEntry, EmptyIdEntry}

RECURSIVE SeqsUpTo(_, _)
SeqsUpTo(S, n) ==
  IF n = 0 THEN {<<>>}
  ELSE SeqsUpTo(S, n - 1) \cup
       {Append(q, x) : q \in {r \in SeqsUpTo(S, n - 1) : Len(r) = n - 1}, x \in S}

JsonBody(obj, isArr, data) == [object |-> obj, isArray |-> isArr, data |-> data]

\* everything the mocked upstream can answer to one request
Responses ==
  {[transport |-> FALSE, ok |-> FALSE, status |-> 0,
    json |-> JsonBody(NoStr, FALSE, <<>>)]} \cup
  {[transport |-> TRUE, ok |-> FALSE, status |-> 500,
    json |-> JsonBody(NoStr, FALSE, <<>>)]} \cup
  {[transport |-> TRUE, ok |-> TRUE, status |-> 200,
    json |-> JsonBody(NoStr, TRUE, <<FullEntry("m1")>>)]} \cup
  {[transport |-> TRUE, ok |-> TRUE, status |-> 200,
    json |-> JsonBody(StrF("list"), FALSE, <<>>)]} \cup
  {[transport |-> TRUE, ok |-> TRUE, status |-> 200,
    json |-> JsonBody(StrF("list"), TRUE, d)] : d \in SeqsUpTo(RawEntries, MaxEntries)}

\* global.fetch is not stubbed: every request gets its own upstream answer
NoMock ==
  [transport |-> FALSE, ok |-> FALSE, status |-> 0,
   json |-> JsonBody(NoStr, FALSE, <<>>)]

(* -------------------------------- state -------------------------------- *)
VARIABLES
  secrets,        \* SecretStorage entry "nanogpt.apiKey"
  cfgModelTypes,  \* workspace setting nanogpt.modelTypes ("" = unset)
  cancelled,      \* state of the CancellationToken handed to the call
  silent,         \* options.silent of the call
  apiKey,         \* local apiKey of prepareLanguageModelChatInformation
  pc,             \* where the call is suspended
  modelType,      \* fetchModels: const modelType
  phase,          \* fetchModels: "primary" (try block) or "fallback" (for loop)
  endpoint,       \* category of the endpoint being fetched
  fallbacks,      \* fetchModels: fallback categories still to iterate
  attempt,        \* retryWithBackoff: let attempt
  lastError,      \* retryWithBackoff: let lastError
  primaryError,   \* fetchModels: the error caught from the primary endpoint
  fetchResult,    \* how fetchModels completed
  result,         \* how prepareLanguageModelChatInformation completed
  notifications,  \* vscode.window.show*Message calls, in order
  requests,       \* history: category of every fetch() issued, in order
  delays,         \* history: every setTimeout delay awaited (after which attempt), in order
  finalErrors,    \* history: the error the operation threw on a category's last attempt
  categoryErrors, \* history: the error fetchModelsFromEndpoint threw per failed category
  cancelPoint,    \* history: where the call was when the token was cancelled
  cancelSnap,     \* history: requests/notifications counted at that moment
  mockFetch,      \* the response a test's stub of global.fetch gives to every request
  settings,       \* the user settings the configuration UI reads and writes, by full key
  ui,             \* the configuration UI: the prompt that is open and the last message shown
  composeLog,     \* the compositions requested so far, each with its outcome
  updates,        \* config.update calls of setModelTemperature issued and not yet applied
  callCfg         \* history: nanogpt.modelTypes when the resolution was invoked

\* what lives in the extension host besides the models service
hostVars == <<settings, ui, composeLog, updates>>

vars == <<secrets, cfgModelTypes, cancelled, silent, apiKey, pc, modelType, phase,
          endpoint, fallbacks, attempt, lastError, primaryError, fetchResult,
          result, notifications, requests, delays, finalErrors, categoryErrors,
          cancelPoint, cancelSnap, mockFetch, hostVars, callCfg>>

\* the settings of the memory feature, under the keys configureMemory uses on
\* getConfiguration("nanogpt"); unset until something writes them
MemoryEnabledKey == "nanogpt.nanogpt.memory.enabled"

MemoryDaysKey == "nanogpt.nanogpt.memory.defaultDays"

\* the other feature settings, under the keys configureReasoning, configureSearch
\* and configureBYOK use on getConfiguration("nanogpt")
ReasoningEnabledKey == "nanogpt.nanogpt.reasoning.enabled"

ReasoningEffortKey == "nanogpt.nanogpt.reasoning.defaultEffort"

SearchEnabledKey == "nanogpt.nanogpt.search.enabled"

SearchModeKey == "nanogpt.nanogpt.search.defaultMode"

ByokEnabledKey == "nanogpt.nanogpt.byok.enabled"

ByokProviderKey == "nanogpt.nanogpt.byok.defaultProvider"

\* the keys the README documents and the model picker reads with
\* config.get("memory.enabled") and config.get("memory.defaultDays")
DocMemoryEnabledKey == "nanogpt.memory.enabled"

DocMemoryDaysKey == "nanogpt.memory.defaultDays"

DocSearchEnabledKey == "nanogpt.search.enabled"

NoSettings ==
  (MemoryEnabledKey :> NoBool) @@ (MemoryDaysKey :> NoNum)

\* every feature setting unset
NoFeatureSettings ==
  NoSettings @@
  (ReasoningEnabledKey :> NoBool) @@ (ReasoningEffortKey :> NoStr) @@
  (SearchEnabledKey :> NoBool) @@ (SearchModeKey :> NoStr) @@
  (ByokEnabledKey :> NoBool) @@ (ByokProviderKey :> NoStr) @@
  (DocMemoryEnabledKey :> NoBool) @@ (DocMemoryDaysKey :> NoNum) @@
  (DocSearchEnabledKey :> NoBool)

\* no configuration prompt is open, nothing has been shown
UiClosed == [pc |-> "closed", notice |-> "none"]

\* what Init fixes for the host outside the models service
HostIdle ==
  /\ settings = NoSettings
  /\ ui = UiClosed
  /\ composeLog = <<>>
  /\ updates = <<>>
  /\ callCfg = "none"

NoFetchResult ==
  [status |-> "none", models |-> <<>>, endpoint |-> "none",
   error |-> [primary |-> "", errors |-> <<>>, message |-> <<>>]]

NoResult == [status |-> "pending", infos |-> <<>>]

Init ==
  /\ secrets \in {NoSecret, Secret(<<"k">>)}
  /\ cfgModelTypes \in {""} \cup ModelType
  /\ cancelled \in BOOLEAN
  /\ silent = FALSE
  /\ apiKey = <<>>
  /\ pc = "idle"
  /\ modelType = "none"
  /\ phase = "none"
  /\ endpoint = "none"
  /\ fallbacks = <<>>
  /\ attempt = 0
  /\ lastError = NoError
  /\ primaryError = NoError
  /\ fetchResult = NoFetchResult
  /\ result = NoResult
  /\ notifications = <<>>
  /\ requests = <<>>
  /\ delays = <<>>
  /\ finalErrors = <<>>
  /\ categoryErrors = <<>>
  /\ cancelPoint = IF cancelled THEN "start" ELSE "none"
  /\ cancelSnap = [requests |-> 0, notifications |-> 0]
  /\ mockFetch = NoMock
  /\ HostIdle

(* --------------------------- fetchModels helpers ----------------------- *)
\* config.get<ModelType>("modelTypes") || "all"
getCurrentModelType(cfg) == IF cfg = "" THEN "all" ELSE cfg

\* mutant: the pushes for "all" and "premium" in the opposite order
FallbackEndpoints_Swapped(mt) ==
  (IF mt # "premium" THEN <<"premium">> ELSE <<>>) \o
  (IF mt # "all" THEN <<"all">> ELSE <<>>) \o
  (IF mt # "subscription" THEN <<"subscription">> ELSE <<>>)

\* the three conditional pushes that build fallbackEndpoints
FallbackEndpoints(mt) ==
  (IF mt # "all" THEN <<"all">> ELSE <<>>) \o
  (IF mt # "premium" THEN <<"premium">> ELSE <<>>) \o
  (IF mt # "subscription" THEN <<"subscription">> ELSE <<>>)

\* mutant: every category is a fallback, the failed primary one included
AvailableFallbacks_WithPrimary(mt) == <<"all", "premium", "subscription">>

\* fallbackEndpoints.filter(type => type !== modelType)
AvailableFallbacks(mt) ==
  LET Keep(t) == t # mt IN SelectSeq(FallbackEndpoints(mt), Keep)

\* mutant: off by one, the loop breaks one attempt too late
MoreAttempts_OffByOne(config, n) == n <= config.maxAttempts

\* the retry loop goes on to another attempt unless attempt === maxAttempts
MoreAttempts(config, n) == n < config.maxAttempts

\* mutant: only the first failure is remembered
CatchLastError_KeepFirst(prev, error) ==
  IF prev = NoError THEN ToError(error) ELSE prev

\* the catch block of retryWithBackoff assigns lastError
CatchLastError(prev, error) == ToError(error)

\* mutant: the fallback is taken without telling the user
FallbackNotice_Missing(notes, category) == notes

\* showInformationMessage("Primary endpoint unavailable. Using X instead.")
FallbackNotice(notes, category) ==
  Append(notes, [level |-> "info", about |-> "fallback",
                 name |-> ENDPOINT_CONFIGS[category].displayName])

\* mutant: only transport and HTTP failures of an endpoint are caught
FetchModelsCatches_TransientOnly(error) == error.kind \in {"network", "http"}

\* fetchModels: catch (error) / catch (fallbackError) take every thrown value
FetchModelsCatches(error) == TRUE

\* showErrorMessage("Failed to fetch models from all NanoGPT endpoints. ...")
AllFailedNotice(notes) ==
  Append(notes, [level |-> "error", about |-> "allFailed", name |-> ""])

\* prepareLanguageModelChatInformation: showInformationMessage("Unable to load ...")
UnableNotice(notes, isSilent) ==
  IF isSilent THEN notes
  ELSE Append(notes, [level |-> "info", about |-> "unable", name |-> ""])

\* new Error(`All NanoGPT endpoints failed. Primary: X. Last error: ${errorMessage}`)
\* where errorMessage is the message of the error caught from the primary endpoint
AllEndpointsFailed(mt, error) ==
  [primary |-> ENDPOINT_CONFIGS[mt].displayName, errors |-> <<error>>,
   message |-> <<"All NanoGPT endpoints failed", ". Primary: ",
                 ENDPOINT_CONFIGS[mt].displayName, ". Last error: ">> \o error.message]

(* ------------------------------- actions ------------------------------- *)
callVars == <<modelType, phase, endpoint, fallbacks, attempt, lastError, primaryError,
              fetchResult, notifications, requests, delays, finalErrors,
              categoryErrors>>

\* mutant: the early return for a missing key is gone, the fetch starts anyway
Prepare_NoKeyFetches(isSilent) ==
  /\ pc = "idle"
  /\ silent' = isSilent
  /\ IF Falsy(secrets) /\ ~isSilent
       THEN /\ pc' = "prompt"
            /\ UNCHANGED <<apiKey, result>>
       ELSE /\ pc' = "fetch"
            /\ apiKey' = secrets.val
            /\ UNCHANGED result
  /\ callCfg' = cfgModelTypes
  /\ UNCHANGED <<secrets, cfgModelTypes, cancelled, cancelPoint, cancelSnap, mockFetch, hostVars>>
  /\ UNCHANGED callVars

\* mutant: ensureApiKey opens the input box whatever options.silent is
Prepare_PromptsWhenSilent(isSilent) ==
  /\ pc = "idle"
  /\ silent' = isSilent
  /\ IF Falsy(secrets)
       THEN /\ pc' = "prompt"
            /\ UNCHANGED <<apiKey, result>>
       ELSE /\ pc' = "fetch"
            /\ apiKey' = secrets.val
            /\ UNCHANGED result
  /\ callCfg' = cfgModelTypes
  /\ UNCHANGED <<secrets, cfgModelTypes, cancelled, cancelPoint, cancelSnap, mockFetch, hostVars>>
  /\ UNCHANGED callVars

\* prepareLanguageModelChatInformation is called; runs ensureApiKey up to its
\* first suspension that depends on the user (the input box) or to its return.
Prepare(isSilent) ==
  /\ pc = "idle"
  /\ silent' = isSilent
  /\ IF Falsy(secrets) /\ ~isSilent
       THEN /\ pc' = "prompt"
            /\ UNCHANGED <<apiKey, result>>
       ELSE IF Falsy(secrets)
         THEN /\ pc' = "done"
              /\ result' = [status |-> "returned", infos |-> <<>>]
              /\ UNCHANGED apiKey
         ELSE /\ pc' = "fetch"
              /\ apiKey' = secrets.val
              /\ UNCHANGED result
  /\ callCfg' = cfgModelTypes
  /\ UNCHANGED <<secrets, cfgModelTypes, cancelled, cancelPoint, cancelSnap, mockFetch, hostVars>>
  /\ UNCHANGED callVars

\* ensureApiKey: showInputBox resolves with what the user entered
PromptAnswer(entered) ==
  /\ pc = "prompt"
  /\ IF entered.given /\ entered.text # <<>> /\ Trim(entered.text) # <<>>
       THEN /\ secrets' = Secret(Trim(entered.text))
            /\ apiKey' = Trim(entered.text)
            /\ pc' = "fetch"
            /\ UNCHANGED result
       ELSE /\ pc' = "done"
            /\ result' = [status |-> "returned", infos |-> <<>>]
            /\ UNCHANGED <<secrets, apiKey>>
  /\ UNCHANGED <<cfgModelTypes, cancelled, silent, cancelPoint, cancelSnap, mockFetch, hostVars, callCfg>>
  /\ UNCHANGED callVars

\* fetchModels starts: reads the model type setting, picks the primary endpoint
\* and enters fetchModelsFromEndpoint / retryWithBackoff for it
FetchModels ==
  /\ pc = "fetch"
  /\ modelType' = getCurrentModelType(cfgModelTypes)
  /\ endpoint' = getCurrentModelType(cfgModelTypes)
  /\ phase' = "primary"
  /\ attempt' = 1
  /\ lastError' = NoError
  /\ pc' = "attempt"
  /\ UNCHANGED <<secrets, cfgModelTypes, cancelled, silent, apiKey, fallbacks,
                 primaryError, fetchResult, result, notifications, requests, delays,
                 finalErrors, categoryErrors, cancelPoint, cancelSnap, mockFetch, hostVars, callCfg>>

\* operation(): fetch(endpoint.url, ...) is issued
IssueRequest ==
  /\ pc = "attempt"
  /\ requests' = Append(requests, endpoint)
  /\ pc' = "inflight"
  /\ UNCHANGED <<secrets, cfgModelTypes, cancelled, silent, apiKey, modelType, phase,
                 endpoint, fallbacks, attempt, lastError, primaryError, fetchResult,
                 result, notifications, delays, finalErrors, categoryErrors,
                 cancelPoint, cancelSnap, mockFetch, hostVars, callCfg>>

\* mutant: the notice of the fallback branch is shown on every success
ResponseSuccess_AlwaysNotifies(resp) ==
  /\ pc = "inflight"
  /\ FetchOperation(resp, endpoint).ok
  /\ fetchResult' = [NoFetchResult EXCEPT
                       !.status = "ok",
                       !.models = FetchOperation(resp, endpoint).models,
                       !.endpoint = endpoint]
  /\ notifications' = FallbackNotice(notifications, endpoint)
  /\ result' = [status |-> "returned",
                infos |-> NormalizeModels(FetchOperation(resp, endpoint).models)]
  /\ pc' = "done"
  /\ UNCHANGED <<secrets, cfgModelTypes, cancelled, silent, apiKey, modelType, phase,
                 endpoint, fallbacks, attempt, lastError, primaryError, requests,
                 delays, finalErrors, categoryErrors, cancelPoint, cancelSnap, mockFetch, hostVars, callCfg>>

\* the response validates and is non-empty: retryWithBackoff returns, fetchModels
\* returns (notifying when it is a fallback) and the caller normalizes the models
ResponseSuccess(resp) ==
  /\ pc = "inflight"
  /\ FetchOperation(resp, endpoint).ok
  /\ fetchResult' = [NoFetchResult EXCEPT
                       !.status = "ok",
                       !.models = FetchOperation(resp, endpoint).models,
                       !.endpoint = endpoint]
  /\ notifications' = IF phase = "fallback"
                        THEN FallbackNotice(notifications, endpoint)
                        ELSE notifications
  /\ result' = [status |-> "returned",
                infos |-> NormalizeModels(FetchOperation(resp, endpoint).models)]
  /\ pc' = "done"
  /\ UNCHANGED <<secrets, cfgModelTypes, cancelled, silent, apiKey, modelType, phase,
                 endpoint, fallbacks, attempt, lastError, primaryError, requests,
                 delays, finalErrors, categoryErrors, cancelPoint, cancelSnap, mockFetch, hostVars, callCfg>>

\* the operation throws and attempts remain: the loop computes the delay and
\* suspends on setTimeout
ResponseRetry(resp) ==
  /\ pc = "inflight"
  /\ ~FetchOperation(resp, endpoint).ok
  /\ MoreAttempts(RETRY_CONFIG, attempt)
  /\ lastError' = CatchLastError(lastError,
                     MkError(FetchOperation(resp, endpoint).kind, endpoint, attempt,
                             FetchOperation(resp, endpoint).message))
  /\ delays' = Append(delays, [category |-> endpoint, after |-> attempt,
                              ms |-> BackoffDelay(RETRY_CONFIG, attempt)])
  /\ pc' = "backoff"
  /\ UNCHANGED <<secrets, cfgModelTypes, cancelled, silent, apiKey, modelType, phase,
                 endpoint, fallbacks, attempt, primaryError, fetchResult, result,
                 notifications, requests, finalErrors, categoryErrors,
                 cancelPoint, cancelSnap, mockFetch, hostVars, callCfg>>

\* the timer fires: next iteration of the retry loop
BackoffElapsed ==
  /\ pc = "backoff"
  /\ attempt' = attempt + 1
  /\ pc' = "attempt"
  /\ UNCHANGED <<secrets, cfgModelTypes, cancelled, silent, apiKey, modelType, phase,
                 endpoint, fallbacks, lastError, primaryError, fetchResult, result,
                 notifications, requests, delays, finalErrors, categoryErrors,
                 cancelPoint, cancelSnap, mockFetch, hostVars, callCfg>>

\* the operation throws on the last attempt: retryWithBackoff throws lastError,
\* fetchModels catches it and moves to the next fallback, or, with none left,
\* reports and throws, which prepareLanguageModelChatInformation catches
ResponseExhausted(resp) ==
  /\ pc = "inflight"
  /\ ~FetchOperation(resp, endpoint).ok
  /\ ~MoreAttempts(RETRY_CONFIG, attempt)
  /\ LET thrownByOp == MkError(FetchOperation(resp, endpoint).kind, endpoint, attempt,
                               FetchOperation(resp, endpoint).message)
         thrown == CatchLastError(lastError, thrownByOp)
         caughtPrimary == IF phase = "primary" THEN thrown ELSE primaryError
         remaining == IF phase = "primary" THEN AvailableFallbacks(modelType)
                                           ELSE fallbacks
     IN /\ finalErrors' = Append(finalErrors, thrownByOp)
        /\ categoryErrors' = Append(categoryErrors, thrown)
        /\ primaryError' = caughtPrimary
        /\ phase' = "fallback"
        /\ IF ~FetchModelsCatches(thrown)
             THEN /\ lastError' = thrown
                  /\ fetchResult' = [NoFetchResult EXCEPT
                                       !.status = "threw",
                                       !.error = [primary |-> "", errors |-> <<thrown>>,
                                                  message |-> thrown.message]]
                  /\ notifications' = UnableNotice(notifications, silent)
                  /\ result' = [status |-> "returned", infos |-> <<>>]
                  /\ pc' = "done"
                  /\ UNCHANGED <<endpoint, fallbacks, attempt>>
             ELSE IF remaining # <<>>
             THEN /\ endpoint' = Head(remaining)
                  /\ fallbacks' = Tail(remaining)
                  /\ attempt' = 1
                  /\ lastError' = NoError
                  /\ pc' = "attempt"
                  /\ UNCHANGED <<fetchResult, result, notifications>>
             ELSE /\ lastError' = thrown
                  /\ fetchResult' = [NoFetchResult EXCEPT
                                       !.status = "threw",
                                       !.error = AllEndpointsFailed(modelType, caughtPrimary)]
                  /\ notifications' = UnableNotice(AllFailedNotice(notifications), silent)
                  /\ result' = [status |-> "returned", infos |-> <<>>]
                  /\ pc' = "done"
                  /\ UNCHANGED <<endpoint, fallbacks, attempt>>
  /\ UNCHANGED <<secrets, cfgModelTypes, cancelled, silent, apiKey, modelType,
                 requests, delays, cancelPoint, cancelSnap, mockFetch, hostVars, callCfg>>

\* the caller's CancellationTokenSource is cancelled while the call is running
Cancel ==
  /\ ~cancelled
  /\ pc # "done"
  /\ cancelled' = TRUE
  /\ cancelPoint' = CASE pc = "idle" -> "start"
                      [] pc = "backoff" -> "backoff"
                      [] OTHER -> "other"
  /\ cancelSnap' = IF pc = "backoff"
                     THEN [requests |-> Len(requests),
                           notifications |-> Len(notifications)]
                     ELSE cancelSnap
  /\ UNCHANGED <<secrets, cfgModelTypes, silent, apiKey, pc, result, mockFetch, hostVars, callCfg>>
  /\ UNCHANGED callVars

Next ==
  \/ \E isSilent \in BOOLEAN : Prepare(isSilent)
  \/ \E entered \in EnteredInputs : PromptAnswer(entered)
  \/ FetchModels
  \/ IssueRequest
  \/ \E resp \in Responses : ResponseSuccess(resp)
  \/ \E resp \in Responses : ResponseRetry(resp)
  \/ BackoffElapsed
  \/ \E resp \in Responses : ResponseExhausted(resp)
  \/ Cancel

Spec == Init /\ [][Next]_vars

\* the upstream answers of each kind: unreachable, HTTP error, a body that fails
\* the schema, an empty catalog, one valid model
LiveResponses ==
  {r \in Responses : r.json.data = <<>> \/ r.json.data = <<FullEntry("m1")>>}

\* a step of fetchModels that needs no one but the network and the timers:
\* a request is issued, a response or rejection arrives, a backoff timer fires
FetchProgress ==
  \/ FetchModels
  \/ IssueRequest
  \/ \E resp \in LiveResponses : ResponseSuccess(resp)
  \/ \E resp \in LiveResponses : ResponseRetry(resp)
  \/ BackoffElapsed
  \/ \E resp \in LiveResponses : ResponseExhausted(resp)

LiveNext ==
  \/ \E isSilent \in BOOLEAN : Prepare(isSilent)
  \/ \E entered \in EnteredInputs : PromptAnswer(entered)
  \/ FetchProgress
  \/ Cancel

\* every network request and every backoff timer eventually completes
LiveSpec == Init /\ [][LiveNext]_vars /\ WF_vars(FetchProgress)

(* ---------- the service of src/nanogptModels.ts (single endpoint) ------- *)
\* `Failed to fetch NanoGPT models: ${status} ${statusText}\n${errorText}`
LegacyHttpMessage(status) ==
  <<"Failed to fetch NanoGPT models", ": ", ToString(status), " <statusText>",
    "\n<errorText>">>

\* `Invalid API response format from NanoGPT: ${err.message}`
LegacyValidationMessage ==
  <<"Invalid API response format", " from NanoGPT: ", "<zod issues>">>

\* "No models data found in validated API response"
LegacyEmptyMessage == <<"No models data found", " in validated API response">>

\* the parsed entries as fetchModels returns them: no endpoint, no category
LegacyModels(data) == [i \in 1..Len(data) |-> ParsedEntry(data[i])]

\* the body of fetchModels applied to the response of its one request
LegacyFetchOperation(resp) ==
  IF ~resp.transport
    THEN [ok |-> FALSE, kind |-> "network", message |-> NetworkMessage, models |-> <<>>]
  ELSE IF ~resp.ok
    THEN [ok |-> FALSE, kind |-> "http", message |-> LegacyHttpMessage(resp.status),
          models |-> <<>>]
  ELSE IF ~NanoGPTModelsResponseSchema(resp.json)
    THEN [ok |-> FALSE, kind |-> "validation", message |-> LegacyValidationMessage,
          models |-> <<>>]
  ELSE IF Len(resp.json.data) = 0
    THEN [ok |-> FALSE, kind |-> "empty", message |-> LegacyEmptyMessage,
          models |-> <<>>]
  ELSE [ok |-> TRUE, kind |-> "none", message |-> <<>>,
        models |-> LegacyModels(resp.json.data)]

\* the showInformationMessage calls fetchModels makes before it throws
LegacyFailureNotice(notes, kind) ==
  IF kind = "http"
    THEN Append(notes, [level |-> "info", about |-> "fetchFailed", name |-> ""])
  ELSE IF kind = "validation"
    THEN Append(notes, [level |-> "info", about |-> "parseFailed", name |-> ""])
  ELSE notes

\* the modelInfo built for one model: name is the id, the tooltip has no category
LegacyModelInfo(m) ==
  [id |-> Val(m.id),
   name |-> Val(m.id),
   tooltipCategory |-> "",
   maxInputTokens |-> IF Tag(m.context_length) = "num"
                        THEN Val(m.context_length) ELSE DEFAULT_CONTEXT_LENGTH,
   maxOutputTokens |-> IF Tag(m.max_output_length) = "num"
                         THEN Val(m.max_output_length) ELSE DEFAULT_MAX_OUTPUT_TOKENS,
   capabilities |-> [toolCalling |-> TRUE,
                     imageInput |-> IF Tag(m.vision) = "bool"
                                      THEN Val(m.vision) ELSE FALSE]]

RECURSIVE LegacyNormalizeModels(_)
LegacyNormalizeModels(models) ==
  IF models = <<>> THEN <<>>
  ELSE IF Val(Head(models).id) = ""
    THEN LegacyNormalizeModels(Tail(models))
    ELSE <<LegacyModelInfo(Head(models))>> \o LegacyNormalizeModels(Tail(models))

\* fetchModels starts: its one request, to `${BASE_URL}/models?detailed=true`
LegacyFetchModels ==
  /\ pc = "fetch"
  /\ requests' = Append(requests, "all")
  /\ endpoint' = "all"
  /\ phase' = "legacy"
  /\ attempt' = 1
  /\ pc' = "legacyInflight"
  /\ UNCHANGED <<secrets, cfgModelTypes, cancelled, silent, apiKey, modelType,
                 fallbacks, lastError, primaryError, fetchResult, result,
                 notifications, delays, finalErrors, categoryErrors,
                 cancelPoint, cancelSnap, mockFetch, hostVars, callCfg>>

\* mutant: the catch block of the caller rethrows instead of returning []
LegacyResponse_Rethrows(resp) ==
  /\ pc = "legacyInflight"
  /\ IF LegacyFetchOperation(resp).ok
       THEN /\ fetchResult' = [NoFetchResult EXCEPT
                                 !.status = "ok",
                                 !.models = LegacyFetchOperation(resp).models,
                                 !.endpoint = endpoint]
            /\ result' = [status |-> "returned",
                          infos |-> LegacyNormalizeModels(
                                      LegacyFetchOperation(resp).models)]
            /\ UNCHANGED <<lastError, notifications>>
       ELSE /\ lastError' = MkError(LegacyFetchOperation(resp).kind, endpoint, attempt,
                                    LegacyFetchOperation(resp).message)
            /\ fetchResult' = [NoFetchResult EXCEPT
                                 !.status = "threw",
                                 !.error = [primary |-> "",
                                            errors |-> <<lastError'>>,
                                            message |-> lastError'.message]]
            /\ notifications' =
                 UnableNotice(
                   LegacyFailureNotice(notifications, LegacyFetchOperation(resp).kind),
                   silent)
            /\ result' = [status |-> "threw", infos |-> <<>>]
  /\ pc' = "done"
  /\ UNCHANGED <<secrets, cfgModelTypes, cancelled, silent, apiKey, modelType, phase,
                 endpoint, fallbacks, attempt, primaryError, requests, delays,
                 finalErrors, categoryErrors, cancelPoint, cancelSnap, mockFetch, hostVars, callCfg>>

\* the response arrives: fetchModels returns the models or notifies and throws;
\* prepareLanguageModelChatInformation normalizes, or catches and returns []
LegacyResponse(resp) ==
  /\ pc = "legacyInflight"
  /\ IF LegacyFetchOperation(resp).ok
       THEN /\ fetchResult' = [NoFetchResult EXCEPT
                                 !.status = "ok",
                                 !.models = LegacyFetchOperation(resp).models,
                                 !.endpoint = endpoint]
            /\ result' = [status |-> "returned",
                          infos |-> LegacyNormalizeModels(
                                      LegacyFetchOperation(resp).models)]
            /\ UNCHANGED <<lastError, notifications>>
       ELSE /\ lastError' = MkError(LegacyFetchOperation(resp).kind, endpoint, attempt,
                                    LegacyFetchOperation(resp).message)
            /\ fetchResult' = [NoFetchResult EXCEPT
                                 !.status = "threw",
                                 !.error = [primary |-> "",
                                            errors |-> <<lastError'>>,
                                            message |-> lastError'.message]]
            /\ notifications' =
                 UnableNotice(
                   LegacyFailureNotice(notifications, LegacyFetchOperation(resp).kind),
                   silent)
            /\ result' = [status |-> "returned", infos |-> <<>>]
  /\ pc' = "done"
  /\ UNCHANGED <<secrets, cfgModelTypes, cancelled, silent, apiKey, modelType, phase,
                 endpoint, fallbacks, attempt, primaryError, requests, delays,
                 finalErrors, categoryErrors, cancelPoint, cancelSnap, mockFetch, hostVars, callCfg>>

(* ------------- both services behind a stubbed global.fetch ------------- *)
\* entries of the tests' fixtures: only id and object
IdObjectEntry(id) ==
  [id |-> StrF(id), name |-> NoStr, object |-> StrF("model"),
   vision |-> NoBool, context_length |-> NoNum,
   max_output_length |-> NoNum, supported_features |-> NoArr]

BadIdEntry == [FullEntry("m1") EXCEPT !.id = BadStr]

BadObjectEntry == [FullEntry("m1") EXCEPT !.object = BadStr]

NoToolsEntry ==
  [FullEntry("m4") EXCEPT !.supported_features = ArrF({"json_mode"}),
                          !.vision = BoolF(FALSE),
                          !.context_length = NoNum,
                          !.max_output_length = NullNum]

ZeroLimitsEntry ==
  [MinimalEntry("m5") EXCEPT !.context_length = NumF(0), !.max_output_length = NumF(0)]

MockEntries ==
  RawEntries \cup
  {IdObjectEntry("m3"), BadIdEntry, BadObjectEntry, NoToolsEntry, ZeroLimitsEntry}

\* what a test makes its stub of global.fetch return
MockResponses ==
  {[transport |-> FALSE, ok |-> FALSE, status |-> 0,
    json |-> JsonBody(NoStr, FALSE, <<>>)]} \cup
  {[transport |-> TRUE, ok |-> FALSE, status |-> st,
    json |-> JsonBody(NoStr, FALSE, <<>>)] : st \in {401, 500}} \cup
  {[transport |-> TRUE, ok |-> TRUE, status |-> 200,
    json |-> JsonBody(NoStr, TRUE, <<MinimalEntry("m2")>>)]} \cup
  {[transport |-> TRUE, ok |-> TRUE, status |-> 200,
    json |-> JsonBody(StrF("list"), FALSE, <<>>)]} \cup
  {[transport |-> TRUE, ok |-> TRUE, status |-> 200,
    json |-> JsonBody(StrF("list"), TRUE, d)] : d \in SeqsUpTo(MockEntries, MaxEntries)}

MockInit ==
  /\ secrets \in {NoSecret, Secret(<<"k">>)}
  /\ cfgModelTypes \in {""} \cup ModelType
  /\ cancelled = FALSE
  /\ silent = FALSE
  /\ apiKey = <<>>
  /\ pc = "idle"
  /\ modelType = "none"
  /\ phase = "none"
  /\ endpoint = "none"
  /\ fallbacks = <<>>
  /\ attempt = 0
  /\ lastError = NoError
  /\ primaryError = NoError
  /\ fetchResult = NoFetchResult
  /\ result = NoResult
  /\ notifications = <<>>
  /\ requests = <<>>
  /\ delays = <<>>
  /\ finalErrors = <<>>
  /\ categoryErrors = <<>>
  /\ cancelPoint = "none"
  /\ cancelSnap = [requests |-> 0, notifications |-> 0]
  /\ mockFetch \in MockResponses
  /\ HostIdle

\* the stub answers the request in flight
MockedSuccess == ResponseSuccess(mockFetch)

MockedRetry == ResponseRetry(mockFetch)

MockedExhausted == ResponseExhausted(mockFetch)

LegacyMocked == LegacyResponse(mockFetch)

MockNext ==
  \/ \E isSilent \in BOOLEAN : Prepare(isSilent)
  \/ \E entered \in EnteredInputs : PromptAnswer(entered)
  \/ FetchModels
  \/ IssueRequest
  \/ MockedSuccess
  \/ MockedRetry
  \/ BackoffElapsed
  \/ MockedExhausted
  \/ LegacyFetchModels
  \/ LegacyMocked

\* a test run: either service, every request answered by the stub
MockSpec == MockInit /\ [][MockNext]_vars

(* ------------------ configuration UI: configureModelTypes -------------- *)
\* everything of the models service but the nanogpt.modelTypes setting
serviceVars == <<secrets, cancelled, silent, apiKey, pc, callVars, result,
                 cancelPoint, cancelSnap, mockFetch, callCfg>>

\* what the user can do with the model type QuickPick: dismiss it or pick an item
ModelTypeSelections == {"dismissed"} \cup ModelType

\* configureModelTypes is called and suspends on showQuickPick
ConfigureModelTypes ==
  /\ ui.pc = "closed"
  /\ ui' = [ui EXCEPT !.pc = "modelTypes"]
  /\ UNCHANGED <<cfgModelTypes, settings, composeLog, updates, serviceVars>>

\* showQuickPick resolves: nothing on dismissal, else config.update("modelTypes")
\* and the confirmation message
ModelTypePicked(selected) ==
  /\ ui.pc = "modelTypes"
  /\ IF selected = "dismissed"
       THEN /\ ui' = [ui EXCEPT !.pc = "closed"]
            /\ UNCHANGED cfgModelTypes
       ELSE /\ cfgModelTypes' = selected
            /\ ui' = [pc |-> "closed", notice |-> "Model type set"]
  /\ UNCHANGED <<settings, composeLog, updates, serviceVars>>

\* the upstream either cannot be reached or answers with one valid model
RaceResponses ==
  {r \in MockResponses :
     \/ ~r.transport
     \/ r.ok /\ r.json = JsonBody(StrF("list"), TRUE, <<FullEntry("m1")>>)}

RaceInit == MockInit /\ mockFetch \in RaceResponses

RaceNext ==
  \/ \E isSilent \in BOOLEAN : Prepare(isSilent)
  \/ \E entered \in EnteredInputs : PromptAnswer(entered)
  \/ FetchModels
  \/ IssueRequest
  \/ MockedSuccess
  \/ MockedRetry
  \/ BackoffElapsed
  \/ MockedExhausted
  \/ ConfigureModelTypes
  \/ \E selected \in ModelTypeSelections : ModelTypePicked(selected)

\* a resolution while the user changes the model type in the configuration UI
RaceSpec == RaceInit /\ [][RaceNext]_vars

(* -------------------- configuration UI: configureMemory ---------------- *)
DigitChars == <<"0", "1", "2", "3", "4", "5", "6", "7", "8", "9">>

IsDigit(c) == \E d \in 1..Len(DigitChars) : DigitChars[d] = c

DigitValue(c) == (CHOOSE d \in 1..Len(DigitChars) : DigitChars[d] = c) - 1

\* the longest prefix of decimal digits
RECURSIVE LeadingDigits(_)
LeadingDigits(t) ==
  IF t # <<>> /\ IsDigit(Head(t)) THEN <<Head(t)>> \o LeadingDigits(Tail(t)) ELSE <<>>

RECURSIVE DigitsValue(_, _)
DigitsValue(t, acc) ==
  IF t = <<>> THEN acc ELSE DigitsValue(Tail(t), 10 * acc + DigitValue(Head(t)))

\* an optional sign in front of the digits
Signed(t) == t # <<>> /\ Head(t) \in {"+", "-"}

\* parseInt(value, 10): leading white space and a sign are skipped, the digits
\* up to the first other character are read, NaN when there is none
ParseInt(t) ==
  IF LeadingDigits(IF Signed(TrimStart(t)) THEN Tail(TrimStart(t)) ELSE TrimStart(t)) = <<>>
    THEN [nan |-> TRUE, val |-> 0]
    ELSE [nan |-> FALSE,
          val |-> (IF Signed(TrimStart(t)) /\ Head(TrimStart(t)) = "-" THEN -1 ELSE 1) *
                  DigitsValue(
                    LeadingDigits(IF Signed(TrimStart(t))
                                    THEN Tail(TrimStart(t)) ELSE TrimStart(t)), 0)]

\* mutant: the upper limit is missing from validateInput
ValidateDays_NoUpperLimit(value) ==
  IF ParseInt(value).nan \/ ParseInt(value).val < 1
    THEN "Please enter a number between 1 and 365."
    ELSE "null"

\* validateInput of the days input box: a message, or null for a valid value
ValidateDays(value) ==
  IF ParseInt(value).nan \/ ParseInt(value).val < 1 \/ ParseInt(value).val > 365
    THEN "Please enter a number between 1 and 365."
    ELSE "null"

\* what the user can type into the days input box, or dismiss it
DaysInputs ==
  {[given |-> FALSE, text |-> <<>>]} \cup
  {[given |-> TRUE, text |-> t] :
     t \in {<<>>, <<"0">>, <<"1">>, <<"3", "0">>, <<"3", "6", "5">>, <<"3", "6", "6">>,
            <<"4", "0", "0">>, <<"1", "0", "0", "0">>, <<"-", "5">>, <<"+", "7">>,
            <<"1", "2", "a">>, <<"a", "b">>, <<"3", ".", "7">>, <<" ", "4", "5">>,
            <<"0", "9", "0">>, <<"1", "e", "3">>}}

MemoryStateSelections == {"dismissed", "Enable", "Disable"}

\* configureMemory is called and suspends on the Enable / Disable QuickPick
ConfigureMemory ==
  /\ ui.pc = "closed"
  /\ ui' = [ui EXCEPT !.pc = "memoryState"]
  /\ UNCHANGED <<cfgModelTypes, settings, composeLog, updates, serviceVars>>

\* the QuickPick resolves: the enabled flag is written, then either the days
\* input box opens (Enable) or "Memory disabled." is shown
MemoryStatePicked(selected) ==
  /\ ui.pc = "memoryState"
  /\ IF selected = "dismissed"
       THEN /\ ui' = [ui EXCEPT !.pc = "closed"]
            /\ UNCHANGED settings
       ELSE IF selected = "Enable"
         THEN /\ settings' = [settings EXCEPT ![MemoryEnabledKey] = BoolF(TRUE)]
              /\ ui' = [ui EXCEPT !.pc = "memoryDays"]
         ELSE /\ settings' = [settings EXCEPT ![MemoryEnabledKey] = BoolF(FALSE)]
              /\ ui' = [pc |-> "closed", notice |-> "Memory disabled"]
  /\ UNCHANGED <<cfgModelTypes, composeLog, updates, serviceVars>>

\* the days input box resolves; the host accepts a text only while validateInput
\* returns null for it
MemoryDaysEntered(entered) ==
  /\ ui.pc = "memoryDays"
  /\ entered.given => ValidateDays(entered.text) = "null"
  /\ IF entered.given /\ entered.text # <<>>
       THEN /\ settings' = [settings EXCEPT
                              ![MemoryDaysKey] = NumF(ParseInt(entered.text).val)]
            /\ ui' = [pc |-> "closed", notice |-> "Memory enabled"]
       ELSE /\ ui' = [ui EXCEPT !.pc = "closed"]
            /\ UNCHANGED settings
  /\ UNCHANGED <<cfgModelTypes, composeLog, updates, serviceVars>>

\* settings as the user may have left them in settings.json
StoredSettings ==
  {(MemoryEnabledKey :> e) @@ (MemoryDaysKey :> d) :
     e \in {NoBool, BoolF(TRUE), BoolF(FALSE)},
     d \in {NoNum, NumF(30), NumF(1000)}}

UiInit ==
  /\ secrets = NoSecret
  /\ cfgModelTypes \in {""} \cup ModelType
  /\ cancelled = FALSE
  /\ silent = FALSE
  /\ apiKey = <<>>
  /\ pc = "idle"
  /\ modelType = "none"
  /\ phase = "none"
  /\ endpoint = "none"
  /\ fallbacks = <<>>
  /\ attempt = 0
  /\ lastError = NoError
  /\ primaryError = NoError
  /\ fetchResult = NoFetchResult
  /\ result = NoResult
  /\ notifications = <<>>
  /\ requests = <<>>
  /\ delays = <<>>
  /\ finalErrors = <<>>
  /\ categoryErrors = <<>>
  /\ cancelPoint = "none"
  /\ cancelSnap = [requests |-> 0, notifications |-> 0]
  /\ mockFetch = NoMock
  /\ settings \in StoredSettings
  /\ ui = UiClosed
  /\ composeLog = <<>>
  /\ updates = <<>>
  /\ callCfg = "none"

UiNext ==
  \/ ConfigureMemory
  \/ \E selected \in MemoryStateSelections : MemoryStatePicked(selected)
  \/ \E entered \in DaysInputs : MemoryDaysEntered(entered)
  \/ ConfigureModelTypes
  \/ \E selected \in ModelTypeSelections : ModelTypePicked(selected)

\* the user runs configuration commands one after another
UiSpec == UiInit /\ [][UiNext]_vars

(* ------------------------- feature composition ------------------------ *)
\* memory.defaultDays: z.number().min(1).max(365).default(30)
DefaultMemoryDays == 30

MinMemoryDays == 1

MaxMemoryDays == 365

Efforts == {"low", "medium", "high"}

SearchModes == {"standard", "deep"}

Providers == {"openai", "anthropic", "google"}

\* mutant: the upper limit of days is not enforced
ValidToggles_NoUpperLimit(t) ==
  /\ t.reasoning.effort \in Efforts
  /\ t.memory.days >= MinMemoryDays
  /\ t.search.mode \in SearchModes
  /\ t.byok.provider \in Providers

\* the constraints NanoGPTConfigurationSchema puts on the four features
ValidToggles(t) ==
  /\ t.reasoning.effort \in Efforts
  /\ t.memory.days >= MinMemoryDays
  /\ t.memory.days <= MaxMemoryDays
  /\ t.search.mode \in SearchModes
  /\ t.byok.provider \in Providers

\* a per-call override with no field present
NoOverride == [effort |-> NoStr, days |-> NoNum, mode |-> NoStr, provider |-> NoStr]

\* override fields, when present, take precedence field by field
Effective(toggles, override) ==
  [reasoning |-> [enabled |-> toggles.reasoning.enabled,
                  effort |-> IF Tag(override.effort) = "str"
                               THEN Val(override.effort) ELSE toggles.reasoning.effort],
   memory |-> [enabled |-> toggles.memory.enabled,
               days |-> IF Tag(override.days) = "num"
                          THEN Val(override.days) ELSE toggles.memory.days],
   search |-> [enabled |-> toggles.search.enabled,
               mode |-> IF Tag(override.mode) = "str"
                          THEN Val(override.mode) ELSE toggles.search.mode],
   byok |-> [enabled |-> toggles.byok.enabled,
             provider |-> IF Tag(override.provider) = "str"
                            THEN Val(override.provider) ELSE toggles.byok.provider]]

\* :online for standard search, :online/linkup-deep for deep search
SearchToken(search) ==
  IF ~search.enabled THEN ""
  ELSE IF search.mode = "standard" THEN ":online" ELSE ":online/linkup-deep"

\* mutant: the number of days is always spelled out
MemoryToken_AlwaysDays(memory) ==
  IF ~memory.enabled THEN "" ELSE ":memory-" \o ToString(memory.days)

\* :memory for the platform default, :memory-{days} otherwise
MemoryToken(memory) ==
  IF ~memory.enabled THEN ""
  ELSE IF memory.days = DefaultMemoryDays THEN ":memory"
  ELSE ":memory-" \o ToString(memory.days)

\* mutant: the memory marker is appended before the search marker
Suffix_MemoryFirst(baseId, t) == baseId \o MemoryToken(t.memory) \o SearchToken(t.search)

\* the tokens appended to baseId in canonical order: search, then memory
Suffix(baseId, t) == baseId \o SearchToken(t.search) \o MemoryToken(t.memory)

\* BYOK becomes the header x-use-byok: true
Headers(t) == [xUseByok |-> IF t.byok.enabled THEN "true" ELSE "absent"]

\* reasoning and BYOK become body fields, never suffix tokens
BodyFields(t) == [reasoning |-> t.reasoning, byok |-> t.byok]

NoRequest ==
  [baseId |-> "", suffix |-> "", headers |-> [xUseByok |-> "absent"],
   bodyFields |-> "none"]

\* mutant: the toggles of the previous call are kept in a module-level variable
\* and used in place of the snapshot passed in
Compose_StaleToggles(baseId, toggles, override) ==
  IF composeLog = <<>>
    THEN IF ~ValidToggles(Effective(toggles, override))
           THEN [ok |-> FALSE, error |-> "ValidationError", request |-> NoRequest]
           ELSE [ok |-> TRUE, error |-> "none",
                 request |-> [baseId |-> baseId,
                              suffix |-> Suffix(baseId, Effective(toggles, override)),
                              headers |-> Headers(Effective(toggles, override)),
                              bodyFields |-> BodyFields(Effective(toggles, override))]]
    ELSE IF ~ValidToggles(composeLog[Len(composeLog)].input.toggles)
           THEN [ok |-> FALSE, error |-> "ValidationError", request |-> NoRequest]
           ELSE [ok |-> TRUE, error |-> "none",
                 request |->
                   [baseId |-> baseId,
                    suffix |-> Suffix(baseId, composeLog[Len(composeLog)].input.toggles),
                    headers |-> Headers(composeLog[Len(composeLog)].input.toggles),
                    bodyFields |-> BodyFields(composeLog[Len(composeLog)].input.toggles)]]

\* compose(baseId, toggles, perCallOverride): validate, then emit
Compose(baseId, toggles, override) ==
  IF ~ValidToggles(Effective(toggles, override))
    THEN [ok |-> FALSE, error |-> "ValidationError", request |-> NoRequest]
    ELSE [ok |-> TRUE, error |-> "none",
          request |-> [baseId |-> baseId,
                       suffix |-> Suffix(baseId, Effective(toggles, override)),
                       headers |-> Headers(Effective(toggles, override)),
                       bodyFields |-> BodyFields(Effective(toggles, override))]]

\* compositions a behaviour may request
MaxCompositions == 3

Toggles(searchOn, mode, memoryOn, days) ==
  [reasoning |-> [enabled |-> TRUE, effort |-> "medium"],
   memory |-> [enabled |-> memoryOn, days |-> days],
   search |-> [enabled |-> searchOn, mode |-> mode],
   byok |-> [enabled |-> FALSE, provider |-> "openai"]]

\* the feature combinations of the README, every toggle within its range
ValidSnapshots ==
  {Toggles(FALSE, "standard", FALSE, 30)} \cup
  {Toggles(TRUE, mode, FALSE, 30) : mode \in SearchModes} \cup
  {Toggles(FALSE, "standard", TRUE, days) : days \in {30, 90}} \cup
  {Toggles(TRUE, mode, TRUE, days) : mode \in SearchModes, days \in {30, 90}}

\* snapshots with one toggle outside its range
InvalidSnapshots ==
  {Toggles(TRUE, "standard", TRUE, 400),
   Toggles(FALSE, "standard", FALSE, 0),
   Toggles(TRUE, "fast", FALSE, 30),
   [Toggles(TRUE, "standard", FALSE, 30) EXCEPT !.reasoning.effort = "extreme"],
   [Toggles(TRUE, "standard", FALSE, 30) EXCEPT !.byok =
                                                  [enabled |-> TRUE, provider |-> "azure"]]}

ComposeInputs ==
  {[baseId |-> "gpt-4o", toggles |-> t, override |-> NoOverride] :
     t \in ValidSnapshots \cup InvalidSnapshots} \cup
  {[baseId |-> "gpt-4o-mini",
    toggles |-> [Toggles(TRUE, "standard", TRUE, 30) EXCEPT !.byok.enabled = TRUE],
    override |-> o] :
     o \in {NoOverride,
            [NoOverride EXCEPT !.days = NumF(90)],
            [NoOverride EXCEPT !.days = NumF(400)],
            [NoOverride EXCEPT !.mode = StrF("deep")]}}

\* one call of compose; the log keeps what went in and what came out
ComposeRequest(in) ==
  /\ Len(composeLog) < MaxCompositions
  /\ composeLog' = Append(composeLog,
                          [input |-> in,
                           outcome |-> Compose(in.baseId, in.toggles, in.override)])
  /\ UNCHANGED <<cfgModelTypes, settings, ui, updates, serviceVars>>

\* nothing of the models service is running and no setting is written
ComposeInit ==
  /\ Init
  /\ secrets = NoSecret
  /\ cfgModelTypes = ""
  /\ ~cancelled

ComposeNext == \E in \in ComposeInputs : ComposeRequest(in)

\* the request-building layer calls compose any number of times
ComposeSpec == ComposeInit /\ [][ComposeNext]_vars

(* ------- configuration UI: configureReasoning / Search / BYOK ----------- *)
StateSelections == {"dismissed", "Enable", "Disable"}

\* mutant: the early return is missing, a dismissal is handled like Disable
StatePicked_NoEarlyReturn(selected, statePc, enabledKey, subPc, disabledNotice) ==
  /\ ui.pc = statePc
  /\ IF selected = "Enable"
       THEN /\ settings' = [settings EXCEPT ![enabledKey] = BoolF(TRUE)]
            /\ ui' = [ui EXCEPT !.pc = subPc]
       ELSE /\ settings' = [settings EXCEPT ![enabledKey] = BoolF(FALSE)]
            /\ ui' = [pc |-> "closed", notice |-> disabledNotice]
  /\ UNCHANGED <<cfgModelTypes, composeLog, updates, serviceVars>>

\* the Enable / Disable QuickPick of a feature resolves: return on dismissal,
\* else config.update(enabled), then the second QuickPick or the "disabled" message
StatePicked(selected, statePc, enabledKey, subPc, disabledNotice) ==
  /\ ui.pc = statePc
  /\ IF selected = "dismissed"
       THEN /\ ui' = [ui EXCEPT !.pc = "closed"]
            /\ UNCHANGED settings
       ELSE IF selected = "Enable"
         THEN /\ settings' = [settings EXCEPT ![enabledKey] = BoolF(TRUE)]
              /\ ui' = [ui EXCEPT !.pc = subPc]
         ELSE /\ settings' = [settings EXCEPT ![enabledKey] = BoolF(FALSE)]
              /\ ui' = [pc |-> "closed", notice |-> disabledNotice]
  /\ UNCHANGED <<cfgModelTypes, composeLog, updates, serviceVars>>

\* the second QuickPick resolves: config.update(sub-setting) and the "enabled"
\* message when an item was picked, nothing otherwise
SubPicked(selected, subPc, subKey, enabledNotice) ==
  /\ ui.pc = subPc
  /\ IF selected = "dismissed"
       THEN /\ ui' = [ui EXCEPT !.pc = "closed"]
            /\ UNCHANGED settings
       ELSE /\ settings' = [settings EXCEPT ![subKey] = StrF(selected)]
            /\ ui' = [pc |-> "closed", notice |-> enabledNotice \o selected]
  /\ UNCHANGED <<cfgModelTypes, composeLog, updates, serviceVars>>

ReasoningStatePicked(selected) ==
  StatePicked(selected, "reasoningState", ReasoningEnabledKey, "reasoningEffort",
              "Reasoning disabled")

ReasoningEffortPicked(selected) ==
  SubPicked(selected, "reasoningEffort", ReasoningEffortKey, "Reasoning enabled with ")

SearchStatePicked(selected) ==
  StatePicked(selected, "searchState", SearchEnabledKey, "searchMode", "Search disabled")

SearchModePicked(selected) ==
  SubPicked(selected, "searchMode", SearchModeKey, "Search enabled in ")

ByokStatePicked(selected) ==
  StatePicked(selected, "byokState", ByokEnabledKey, "byokProvider", "BYOK disabled")

ByokProviderPicked(selected) ==
  SubPicked(selected, "byokProvider", ByokProviderKey, "BYOK enabled with ")

\* the models service without the secret store
keyFrame == <<cancelled, silent, apiKey, pc, callVars, result, cancelPoint, cancelSnap,
              mockFetch, callCfg>>

(* --------------- model temperatures: get / setModelTemperature --------- *)
\* the setting getModelTemperature and setModelTemperature use
TemperaturesKey == "nanogpt.modelTemperatures"

\* the models whose temperature is configured
TempModels == {"m1", "m2"}

\* a temperature record with no entry; temperatures are held in tenths
EmptyTemps == [m \in TempModels |-> NoNum]

NoMap == <<"absent", EmptyTemps>>

MapF(f) == <<"obj", f>>

\* every setting the configuration UI and the temperature functions use, unset
NoHostSettings == NoFeatureSettings @@ (TemperaturesKey :> NoMap)

\* config.get("modelTemperatures")?.[modelId]; NoNum is undefined
getModelTemperature(cfg, modelId) == cfg[TemperaturesKey][2][modelId]

\* mutant: the record is rebuilt from the written entry alone
NextTemperatures_Fresh(cfg, modelId, temperature) ==
  [EmptyTemps EXCEPT ![modelId] = temperature]

\* setModelTemperature up to its await: { ...existing } with the entry of modelId
\* deleted (temperature undefined) or assigned
NextTemperatures(cfg, modelId, temperature) ==
  [cfg[TemperaturesKey][2] EXCEPT ![modelId] = temperature]

\* in-flight config.update calls at any one time
MaxUpdates == 2

\* the temperatures a caller passes: undefined or 0.7
TempArgs == {NoNum, NumF(7)}

\* setModelTemperature(modelId, temperature) is called: the record is read and
\* rebuilt, config.update is issued and the caller awaits it
SetModelTemperature(modelId, temperature) ==
  /\ Len(updates) < MaxUpdates
  /\ updates' = Append(updates,
                       [by |-> "call", modelId |-> modelId, temperature |-> temperature,
                        existing |-> settings[TemperaturesKey][2],
                        value |-> MapF(NextTemperatures(settings, modelId, temperature))])
  /\ UNCHANGED <<cfgModelTypes, settings, ui, composeLog, serviceVars>>

\* the host applies the oldest pending update; its promise resolves
UpdateApplied ==
  /\ updates # <<>>
  /\ settings' = [settings EXCEPT ![TemperaturesKey] = Head(updates).value]
  /\ updates' = Tail(updates)
  /\ UNCHANGED <<cfgModelTypes, ui, composeLog, serviceVars>>

(* ------------- configuration UI: configureModelTemperature ------------- *)
\* parseFloat(value) in tenths: leading white space and a sign are skipped, then
\* digits, a point and digits; NaN when there is no digit
ParseFloat(t) ==
  LET u == TrimStart(t)
      body == IF Signed(u) THEN Tail(u) ELSE u
      ip == LeadingDigits(body)
      rest == SubSeq(body, Len(ip) + 1, Len(body))
      fp == IF rest # <<>> /\ Head(rest) = "." THEN LeadingDigits(Tail(rest)) ELSE <<>>
  IN IF ip = <<>> /\ fp = <<>>
       THEN [nan |-> TRUE, val |-> 0]
       ELSE [nan |-> FALSE,
             val |-> (IF Signed(u) /\ Head(u) = "-" THEN -1 ELSE 1) *
                     (10 * DigitsValue(ip, 0) +
                      (IF fp = <<>> THEN 0 ELSE DigitValue(Head(fp))))]

\* validateInput of the temperature input box: a message, or null
ValidateTemperature(value) ==
  IF value = <<>> THEN "null"
  ELSE IF ParseFloat(value).nan THEN "Please enter a valid number"
  ELSE IF ParseFloat(value).val < 0 \/ ParseFloat(value).val > 20
    THEN "Temperature must be between 0 and 2"
  ELSE "null"

\* what the user can type into the temperature input box, or dismiss it
TempInputs ==
  {[given |-> FALSE, text |-> <<>>]} \cup
  {[given |-> TRUE, text |-> t] :
     t \in {<<>>, <<"0", ".", "7">>, <<"3">>, <<"a">>, <<"-", "1">>}}

\* Number.prototype.toFixed(2) of a temperature held in tenths
ToFixed2(tenths) ==
  ToString(tenths \div 10) \o "." \o ToString(tenths % 10) \o "0"

\* a setting read as a condition: true only when it holds true
Truthy(v) == v = BoolF(TRUE)

\* `${config.get("memory.defaultDays")}`
DaysText(v) == IF v[1] = "num" THEN ToString(v[2]) ELSE "undefined"

\* the description of a picker item: temperature or "Default", then the memory
\* and search annotations, read with config.get("memory.enabled"),
\* config.get("memory.defaultDays") and config.get("nanogpt.search.enabled")
Description(cfg, modelId) ==
  (IF getModelTemperature(cfg, modelId) = NoNum
     THEN "Default" ELSE ToFixed2(getModelTemperature(cfg, modelId)[2])) \o
  (IF Truthy(cfg[DocMemoryEnabledKey])
     THEN " / Mem: " \o DaysText(cfg[DocMemoryDaysKey]) \o "d" ELSE "") \o
  (IF Truthy(cfg[SearchEnabledKey]) THEN " / Search" ELSE "")

\* models.map(m => ({label: m.id, description, modelId: m.id}))
ModelItems(cfg, models) ==
  [i \in 1..Len(models) |->
     [label |-> models[i].id[2], description |-> Description(cfg, models[i].id[2])]]

\* the stub of fetch lists the two models
TempListing ==
  [transport |-> TRUE, ok |-> TRUE, status |-> 200,
   json |-> JsonBody(StrF("list"), TRUE, <<FullEntry("m1"), FullEntry("m2")>>)]

\* the stub of fetch either cannot be reached or lists the two models
TempResponses == {NoMock, TempListing}

\* the key prompt of ensureApiKey(secrets, false) resolves
TempKeyEntered(entered) ==
  /\ ui.pc = "tempKey"
  /\ IF entered.given /\ entered.text # <<>> /\ Trim(entered.text) # <<>>
       THEN /\ secrets' = Secret(Trim(entered.text))
            /\ ui' = [ui EXCEPT !.pc = "tempFetch"]
       ELSE /\ ui' = [pc |-> "closed",
                      notice |-> "Please configure your NanoGPT API key first"]
            /\ UNCHANGED secrets
  /\ UNCHANGED <<cfgModelTypes, settings, composeLog, updates, keyFrame>>

\* fetchModels settles against the stub, which answers every request alike:
\* the catch shows the failure, else the model picker opens
TempFetched ==
  /\ ui.pc = "tempFetch"
  /\ LET op == FetchOperation(mockFetch, getCurrentModelType(cfgModelTypes))
     IN ui' = IF op.ok
                THEN [pc |-> "tempModel", notice |-> ui.notice,
                      items |-> ModelItems(settings, op.models)]
                ELSE [pc |-> "closed", notice |-> "Failed to configure temperature"]
  /\ UNCHANGED <<cfgModelTypes, settings, composeLog, updates, serviceVars>>

\* the model picker resolves: return on dismissal, else the input box opens
TempModelPicked(selected) ==
  /\ ui.pc = "tempModel"
  /\ \/ selected = "dismissed"
     \/ \E i \in 1..Len(ui.items) : ui.items[i].label = selected
  /\ ui' = IF selected = "dismissed"
             THEN [pc |-> "closed", notice |-> ui.notice]
             ELSE [pc |-> "tempInput", notice |-> ui.notice, modelId |-> selected]
  /\ UNCHANGED <<cfgModelTypes, settings, composeLog, updates, serviceVars>>

\* the input box resolves with a text validateInput accepts: return on
\* dismissal, else setModelTemperature is called and awaited
TempEntered(entered) ==
  /\ ui.pc = "tempInput"
  /\ entered.given => ValidateTemperature(entered.text) = "null"
  /\ IF ~entered.given
       THEN /\ ui' = [pc |-> "closed", notice |-> ui.notice]
            /\ UNCHANGED updates
       ELSE LET temperature == IF entered.text = <<>>
                                 THEN NoNum ELSE NumF(ParseFloat(entered.text).val)
            IN /\ Len(updates) < MaxUpdates
               /\ updates' = Append(updates,
                                    [by |-> "ui", modelId |-> ui.modelId,
                                     temperature |-> temperature,
                                     existing |-> settings[TemperaturesKey][2],
                                     value |-> MapF(NextTemperatures(settings, ui.modelId,
                                                                     temperature))])
               /\ ui' = [pc |-> "tempSaving", notice |-> ui.notice,
                         temperature |-> temperature]
  /\ UNCHANGED <<cfgModelTypes, settings, composeLog, serviceVars>>

\* the update of the dialog has been applied: the confirmation is shown
TempSaved ==
  /\ ui.pc = "tempSaving"
  /\ \A i \in 1..Len(updates) : updates[i].by # "ui"
  /\ ui' = [pc |-> "closed",
            notice |-> IF ui.temperature = NoNum
                         THEN "Temperature reset to default" ELSE "Temperature set"]
  /\ UNCHANGED <<cfgModelTypes, settings, composeLog, updates, serviceVars>>

(* ------------------- configuration UI: showNanoGPTConfigUI ------------- *)
\* what the user can do with the menu of showNanoGPTConfigUI
ConfigSelections ==
  {"dismissed", "Configure Model Types", "Configure Model Temperature",
   "Configure Reasoning", "Configure Memory", "Configure Search", "Configure BYOK"}

\* showNanoGPTConfigUI is called and suspends on its QuickPick
ShowNanoGPTConfigUI ==
  /\ ui.pc = "closed"
  /\ ui' = [ui EXCEPT !.pc = "configMenu"]
  /\ UNCHANGED <<cfgModelTypes, settings, composeLog, updates, serviceVars>>

\* the menu resolves: the picked function runs up to its first prompt;
\* configureModelTemperature starts with ensureApiKey(secrets, false)
ConfigMenuPicked(selected) ==
  /\ ui.pc = "configMenu"
  /\ ui' = [ui EXCEPT !.pc =
              CASE selected = "Configure Model Types" -> "modelTypes"
                [] selected = "Configure Model Temperature" ->
                     IF Falsy(secrets) THEN "tempKey" ELSE "tempFetch"
                [] selected = "Configure Reasoning" -> "reasoningState"
                [] selected = "Configure Memory" -> "memoryState"
                [] selected = "Configure Search" -> "searchState"
                [] selected = "Configure BYOK" -> "byokState"
                [] OTHER -> "closed"]
  /\ UNCHANGED <<cfgModelTypes, settings, composeLog, updates, serviceVars>>

(* ------------------- nanogpt.manage: Set API Key ----------------------- *)
\* what the user can do with the QuickPick of nanogpt.manage
ManageSelections == {"dismissed", "Set API Key", "Configure Provider"}

\* what the user can do with the key input box: dismiss it, or submit a text
KeyInputs ==
  {[given |-> FALSE, text |-> <<>>]} \cup
  {[given |-> TRUE, text |-> t] :
     t \in {<<>>, <<" ">>, <<" ", " ">>, <<"k">>, <<" ", "k", " ">>, <<"j", " ">>,
            <<"k", " ", "j">>}}

\* the command is run and suspends on its QuickPick
ManageCommand ==
  /\ ui.pc = "closed"
  /\ ui' = [ui EXCEPT !.pc = "manage"]
  /\ UNCHANGED <<cfgModelTypes, settings, composeLog, updates, serviceVars>>

\* the QuickPick resolves: nothing on dismissal, else the option's handler runs
\* up to its first prompt (the key input box, or the menu of showNanoGPTConfigUI)
ManagePicked(selected) ==
  /\ ui.pc = "manage"
  /\ ui' = [ui EXCEPT !.pc = CASE selected = "Set API Key" -> "apiKey"
                               [] selected = "Configure Provider" -> "configMenu"
                               [] OTHER -> "closed"]
  /\ UNCHANGED <<cfgModelTypes, settings, composeLog, updates, serviceVars>>

\* mutant: the text is stored as entered
SetApiKeyEntered_NoTrim(entered) ==
  /\ ui.pc = "apiKey"
  /\ IF ~entered.given
       THEN /\ ui' = [ui EXCEPT !.pc = "closed"]
            /\ UNCHANGED secrets
       ELSE IF Trim(entered.text) = <<>>
         THEN /\ secrets' = NoSecret
              /\ ui' = [pc |-> "closed", notice |-> "NanoGPT API key cleared"]
         ELSE /\ secrets' = Secret(entered.text)
              /\ ui' = [pc |-> "closed", notice |-> "NanoGPT API key saved"]
  /\ UNCHANGED <<cfgModelTypes, settings, composeLog, updates, keyFrame>>

\* mutant: a blank text returns like a dismissal, the stored key stays
SetApiKeyEntered_BlankKept(entered) ==
  /\ ui.pc = "apiKey"
  /\ IF ~entered.given \/ Trim(entered.text) = <<>>
       THEN /\ ui' = [ui EXCEPT !.pc = "closed"]
            /\ UNCHANGED secrets
       ELSE /\ secrets' = Secret(Trim(entered.text))
            /\ ui' = [pc |-> "closed", notice |-> "NanoGPT API key saved"]
  /\ UNCHANGED <<cfgModelTypes, settings, composeLog, updates, keyFrame>>

\* the key input box resolves: return on undefined, secrets.delete on a blank
\* text, else secrets.store of the trimmed text
SetApiKeyEntered(entered) ==
  /\ ui.pc = "apiKey"
  /\ IF ~entered.given
       THEN /\ ui' = [ui EXCEPT !.pc = "closed"]
            /\ UNCHANGED secrets
       ELSE IF Trim(entered.text) = <<>>
         THEN /\ secrets' = NoSecret
              /\ ui' = [pc |-> "closed", notice |-> "NanoGPT API key cleared"]
         ELSE /\ secrets' = Secret(Trim(entered.text))
              /\ ui' = [pc |-> "closed", notice |-> "NanoGPT API key saved"]
  /\ UNCHANGED <<cfgModelTypes, settings, composeLog, updates, keyFrame>>

(* ------------------------ the host, call after call -------------------- *)
\* no call of the models service is running
ServiceIdle ==
  /\ cancelled = FALSE
  /\ silent = FALSE
  /\ apiKey = <<>>
  /\ pc = "idle"
  /\ modelType = "none"
  /\ phase = "none"
  /\ endpoint = "none"
  /\ fallbacks = <<>>
  /\ attempt = 0
  /\ lastError = NoError
  /\ primaryError = NoError
  /\ fetchResult = NoFetchResult
  /\ result = NoResult
  /\ notifications = <<>>
  /\ requests = <<>>
  /\ delays = <<>>
  /\ finalErrors = <<>>
  /\ categoryErrors = <<>>
  /\ cancelPoint = "none"
  /\ cancelSnap = [requests |-> 0, notifications |-> 0]
  /\ callCfg = "none"

\* prepareLanguageModelChatInformation has returned; the host may call it again
NextCall ==
  /\ pc = "done"
  /\ cancelled' = FALSE
  /\ silent' = FALSE
  /\ apiKey' = <<>>
  /\ pc' = "idle"
  /\ modelType' = "none"
  /\ phase' = "none"
  /\ endpoint' = "none"
  /\ fallbacks' = <<>>
  /\ attempt' = 0
  /\ lastError' = NoError
  /\ primaryError' = NoError
  /\ fetchResult' = NoFetchResult
  /\ result' = NoResult
  /\ notifications' = <<>>
  /\ requests' = <<>>
  /\ delays' = <<>>
  /\ finalErrors' = <<>>
  /\ categoryErrors' = <<>>
  /\ cancelPoint' = "none"
  /\ cancelSnap' = [requests |-> 0, notifications |-> 0]
  /\ callCfg' = "none"
  /\ UNCHANGED <<secrets, cfgModelTypes, mockFetch, hostVars>>

\* the secret store is empty, nothing is configured, no prompt is open
KeyInit ==
  /\ ServiceIdle
  /\ secrets = NoSecret
  /\ cfgModelTypes = ""
  /\ mockFetch \in TempResponses
  /\ settings = NoHostSettings
  /\ ui = UiClosed
  /\ composeLog = <<>>
  /\ updates = <<>>

KeyNext ==
  \/ \E isSilent \in BOOLEAN : Prepare(isSilent)
  \/ \E entered \in EnteredInputs : PromptAnswer(entered)
  \/ FetchModels
  \/ IssueRequest
  \/ MockedSuccess
  \/ MockedRetry
  \/ BackoffElapsed
  \/ MockedExhausted
  \/ NextCall
  \/ ManageCommand
  \/ \E selected \in ManageSelections : ManagePicked(selected)
  \/ \E entered \in KeyInputs : SetApiKeyEntered(entered)
  \/ \E selected \in {"dismissed", "Configure Model Temperature"} :
       ConfigMenuPicked(selected)
  \/ \E entered \in KeyInputs : TempKeyEntered(entered)
  \/ TempFetched
  \/ TempModelPicked("dismissed")

\* model resolutions, the Set API Key command and the temperature dialog, which
\* all go through the secret store, in any order and overlapping
KeySpec == KeyInit /\ [][KeyNext]_vars

\* a key may be stored, the upstream lists the models, nothing is configured
TempInit ==
  /\ ServiceIdle
  /\ secrets \in {NoSecret, Secret(<<"k">>)}
  /\ cfgModelTypes = ""
  /\ mockFetch = TempListing
  /\ settings = NoHostSettings
  /\ ui = UiClosed
  /\ composeLog = <<>>
  /\ updates = <<>>

TempNext ==
  \/ \E modelId \in TempModels, temperature \in TempArgs :
       SetModelTemperature(modelId, temperature)
  \/ UpdateApplied
  \/ ShowNanoGPTConfigUI
  \/ \E selected \in {"dismissed", "Configure Model Temperature"} :
       ConfigMenuPicked(selected)
  \/ \E entered \in EnteredInputs : TempKeyEntered(entered)
  \/ TempFetched
  \/ \E selected \in {"dismissed"} \cup TempModels : TempModelPicked(selected)
  \/ \E entered \in TempInputs : TempEntered(entered)
  \/ TempSaved

\* callers of setModelTemperature and the temperature dialog, overlapping freely
TempSpec == TempInit /\ [][TempNext]_vars

\* settings.json as the README shows it for the four features, written under
\* the keys the configuration UI uses
ReadmeFeatures ==
  [NoHostSettings EXCEPT
     ![ReasoningEnabledKey] = BoolF(TRUE), ![ReasoningEffortKey] = StrF("medium"),
     ![MemoryEnabledKey] = BoolF(TRUE), ![MemoryDaysKey] = NumF(30),
     ![SearchEnabledKey] = BoolF(TRUE), ![SearchModeKey] = StrF("standard"),
     ![ByokEnabledKey] = BoolF(FALSE), ![ByokProviderKey] = StrF("openai")]

\* the days the user enters in this run of the dialogs, or dismisses the box
FeatureDays ==
  {e \in DaysInputs : ~e.given \/ e.text \in {<<"3", "6", "5">>, <<"4", "0", "0">>}}

FeatureInit ==
  /\ ServiceIdle
  /\ secrets = NoSecret
  /\ cfgModelTypes = ""
  /\ mockFetch = NoMock
  /\ settings \in {NoHostSettings, ReadmeFeatures}
  /\ ui = UiClosed
  /\ composeLog = <<>>
  /\ updates = <<>>

FeatureNext ==
  \/ ShowNanoGPTConfigUI
  \/ \E selected \in {"dismissed", "Configure Reasoning", "Configure Memory",
                      "Configure Search", "Configure BYOK"} : ConfigMenuPicked(selected)
  \/ \E selected \in StateSelections : ReasoningStatePicked(selected)
  \/ \E selected \in {"dismissed"} \cup Efforts : ReasoningEffortPicked(selected)
  \/ \E selected \in MemoryStateSelections : MemoryStatePicked(selected)
  \/ \E entered \in FeatureDays : MemoryDaysEntered(entered)
  \/ \E selected \in StateSelections : SearchStatePicked(selected)
  \/ \E selected \in {"dismissed"} \cup SearchModes : SearchModePicked(selected)
  \/ \E selected \in StateSelections : ByokStatePicked(selected)
  \/ \E selected \in {"dismissed"} \cup Providers : ByokProviderPicked(selected)

\* the user goes through the feature dialogs of showNanoGPTConfigUI, one after
\* another
FeatureSpec == FeatureInit /\ [][FeatureNext]_vars

\* settings.json with the memory block of the README written by hand
ReadmeMemory ==
  [NoHostSettings EXCEPT
     ![DocMemoryEnabledKey] = BoolF(TRUE), ![DocMemoryDaysKey] = NumF(30)]

PickerInit ==
  /\ ServiceIdle
  /\ secrets \in {NoSecret, Secret(<<"k">>)}
  /\ cfgModelTypes = ""
  /\ mockFetch \in TempResponses
  /\ settings \in {NoHostSettings, ReadmeMemory}
  /\ ui = UiClosed
  /\ composeLog = <<>>
  /\ updates = <<>>

PickerNext ==
  \/ ShowNanoGPTConfigUI
  \/ \E selected \in {"dismissed", "Configure Memory", "Configure Search",
                      "Configure Model Temperature"} : ConfigMenuPicked(selected)
  \/ \E selected \in MemoryStateSelections : MemoryStatePicked(selected)
  \/ \E entered \in FeatureDays : MemoryDaysEntered(entered)
  \/ \E selected \in StateSelections : SearchStatePicked(selected)
  \/ \E selected \in {"dismissed"} \cup SearchModes : SearchModePicked(selected)
  \/ \E entered \in EnteredInputs : TempKeyEntered(entered)
  \/ TempFetched
  \/ TempModelPicked("dismissed")

\* the user configures memory and search and opens the model picker of the
\* temperature dialog
PickerSpec == PickerInit /\ [][PickerNext]_vars

(* ======================= properties of the claims ====================== *)
\* number of requests sent to category c
RECURSIVE Count(_, _)
Count(q, c) ==
  IF q = <<>> THEN 0 ELSE (IF Head(q) = c THEN 1 ELSE 0) + Count(Tail(q), c)

\* categories in the order they were first contacted
RECURSIVE FirstContacts(_)
FirstContacts(q) ==
  IF q = <<>> THEN <<>>
  ELSE LET rest == FirstContacts(SubSeq(q, 1, Len(q) - 1))
           IsNew == \A i \in 1..(Len(q) - 1) : q[i] # q[Len(q)]
       IN IF IsNew THEN Append(rest, q[Len(q)]) ELSE rest

IsPrefix(a, b) == Len(a) <= Len(b) /\ \A i \in 1..Len(a) : a[i] = b[i]

\* the order the specification prescribes: preferred, then all, premium,
\* subscription without the preferred one
PrescribedOrder(mt) ==
  CASE mt = "all" -> <<"all", "premium", "subscription">>
    [] mt = "premium" -> <<"premium", "all", "subscription">>
    [] mt = "subscription" -> <<"subscription", "all", "premium">>

\* once a category has been left it is never contacted again
NoReturnTo(q) ==
  \A i, j, k \in 1..Len(q) : (i < j /\ j < k /\ q[i] = q[k]) => q[j] = q[i]

NonTransient == {"validation", "empty"}

\* C1: a resolution contacts the preferred category first, then the others in
\* the order all, premium, subscription; no category is attempted twice; after
\* the first success no further request is issued.
C1_FallbackOrder ==
  /\ [](modelType # "none" =>
          /\ IsPrefix(FirstContacts(requests), PrescribedOrder(modelType))
          /\ NoReturnTo(requests))
  /\ [][fetchResult.status = "ok" => requests' = requests]_vars

C1_Witness ==
  /\ pc = "done"
  /\ fetchResult.status = "ok"
  /\ modelType = "premium"
  /\ FirstContacts(requests) = <<"premium", "all", "subscription">>

\* C2: after a validation failure or an empty catalog the category is not
\* retried: it has received exactly one request and no backoff is pending.
C2_NonTransientNotRetried ==
  lastError.kind \in NonTransient =>
    /\ pc # "backoff"
    /\ Count(requests, lastError.category) = 1

\* C3: no category ever receives more than maxAttempts requests, and the first
\* successful attempt ends the call: it is the last request issued.
C3_AtMostMaxAttempts ==
  /\ attempt <= RETRY_CONFIG.maxAttempts
  /\ \A c \in ModelType : Count(requests, c) <= RETRY_CONFIG.maxAttempts
  /\ fetchResult.status = "ok" =>
       /\ pc = "done"
       /\ requests[Len(requests)] = fetchResult.endpoint
       /\ Count(requests, fetchResult.endpoint) = attempt

C3_Witness ==
  /\ fetchResult.status = "ok"
  /\ Count(requests, fetchResult.endpoint) = 3
  /\ attempt = 3

\* C4: the suspension after failed attempt k lasts baseDelay * multiplier^(k-1),
\* that is 1000 ms after the first and 2000 ms after the second failure; a
\* primary endpoint failing twice and then succeeding sees exactly these two.
C4_BackoffSchedule ==
  /\ \A i \in 1..Len(delays) :
       /\ delays[i].after \in {1, 2}
       /\ delays[i].after = 1 => delays[i].ms = 1000
       /\ delays[i].after = 2 => delays[i].ms = 2000
  /\ (fetchResult.status = "ok" /\ phase = "primary" /\ attempt = 3) =>
       /\ Len(delays) = 2
       /\ delays[1].ms = 1000
       /\ delays[2].ms = 2000
       /\ result.status = "returned"
       /\ fetchResult.models # <<>>

C4_Witness ==
  /\ fetchResult.status = "ok"
  /\ phase = "primary"
  /\ attempt = 3
  /\ Len(delays) = 2

\* C5: a resolution started with the token already cancelled issues no
\* network request and ends as a cancellation.
C5_CancelledBeforeStart ==
  (cancelPoint = "start" /\ apiKey # <<>>) =>
    /\ requests = <<>>
    /\ pc = "done" => result.status = "cancelled"

\* C6: once the token is cancelled during a backoff suspension no further
\* request is issued, the notifier is not invoked and the call ends as a
\* cancellation.
C6_CancelledDuringBackoff ==
  cancelPoint = "backoff" =>
    /\ Len(requests) = cancelSnap.requests
    /\ Len(notifications) = cancelSnap.notifications
    /\ pc = "done" => result.status = "cancelled"

\* C7: when a fallback category serves the resolution, the user is notified
\* exactly once, the notice names that category and every model returned is
\* tagged with it.
C7_FallbackNotifiedOnce ==
  (fetchResult.status = "ok" /\ fetchResult.endpoint # modelType) =>
    /\ Len(notifications) = 1
    /\ notifications[1].about = "fallback"
    /\ notifications[1].name = ENDPOINT_CONFIGS[fetchResult.endpoint].displayName
    /\ \A i \in 1..Len(fetchResult.models) :
         fetchResult.models[i].category = fetchResult.endpoint

C7_Witness ==
  /\ fetchResult.status = "ok"
  /\ modelType = "premium"
  /\ fetchResult.endpoint = "all"
  /\ categoryErrors[1].kind = "network"

\* C8: when every category has failed, the error fetchModels throws carries
\* the failure of the preferred category followed by the failures of the
\* categories tried after it, in order.
C8_AggregateCarriesAllErrors ==
  fetchResult.status = "threw" => fetchResult.error.errors = categoryErrors

\* C9: after a validation failure or an empty catalog of the preferred
\* category the next category in order is attempted, and when a fallback
\* succeeds the call returns that category's descriptors.
C9_NonTransientEscalates ==
  (primaryError.kind \in NonTransient \/
   (Len(categoryErrors) > 0 /\ categoryErrors[1].kind \in NonTransient)) =>
    /\ \/ /\ pc = "attempt"
          /\ endpoint = PrescribedOrder(modelType)[2]
       \/ Count(requests, PrescribedOrder(modelType)[2]) > 0
    /\ fetchResult.status = "ok" =>
         /\ result.status = "returned"
         /\ \A i \in 1..Len(result.infos) :
              /\ result.infos[i].tooltipCategory = fetchResult.endpoint
              /\ \E j \in 1..Len(fetchResult.models) :
                   Val(fetchResult.models[j].id) = result.infos[i].id
         /\ \A j \in 1..Len(fetchResult.models) :
              Val(fetchResult.models[j].id) # "" =>
                \E i \in 1..Len(result.infos) :
                  result.infos[i].id = Val(fetchResult.models[j].id)

C9_Witness ==
  /\ primaryError.kind \in NonTransient
  /\ fetchResult.status = "ok"
  /\ fetchResult.endpoint = PrescribedOrder(modelType)[2]
  /\ result.infos # <<>>

\* C10: the error raised for an exhausted category is the very error its last
\* attempt failed with.
C10_LastErrorRaised ==
  /\ categoryErrors = finalErrors
  /\ \A i \in 1..Len(categoryErrors) :
       categoryErrors[i].attempt = RETRY_CONFIG.maxAttempts

C10_Witness ==
  /\ Len(categoryErrors) = 3
  /\ categoryErrors[1].kind = "validation"
  /\ categoryErrors[2].kind = "http"
  /\ fetchResult.status = "threw"

(* ---------------- claims about a stubbed upstream response -------------- *)
\* the category the answered request was sent to
LastRequest == requests[Len(requests)]

\* the fetch of the multi-endpoint service resolved
FetchResolved == fetchResult.status = "ok" /\ phase # "legacy"

\* C11: for every category c, a successful fetch from c returns as many
\* categorized models as the response has entries, in the response's order,
\* and the category of every one of them is c.
C11_CategorizedCount ==
  \A c \in ModelType :
    (FetchResolved /\ LastRequest = c) =>
      /\ Len(fetchResult.models) = Len(mockFetch.json.data)
      /\ \A i \in 1..Len(fetchResult.models) :
           /\ fetchResult.models[i].category = ENDPOINT_CONFIGS[c].category
           /\ fetchResult.models[i].id = mockFetch.json.data[i].id
      /\ \A i \in 1..Len(result.infos) :
           result.infos[i].tooltipCategory = ENDPOINT_CONFIGS[c].category

C11_Witness ==
  /\ FetchResolved
  /\ LastRequest = "subscription"
  /\ Len(fetchResult.models) = 2
  /\ fetchResult.models[1].category = "subscription"
  /\ fetchResult.models[2].category = "subscription"
  /\ Len(result.infos) = 2

\* an entry that carries a string id and a string object and nothing else
OnlyIdAndObject(e) ==
  /\ Tag(e.id) = "str"
  /\ Tag(e.object) = "str"
  /\ Tag(e.name) = "absent"
  /\ Tag(e.vision) = "absent"
  /\ Tag(e.context_length) = "absent"
  /\ Tag(e.max_output_length) = "absent"
  /\ Tag(e.supported_features) = "absent"

\* the stub answers 200 with a body whose top-level object is a string and whose
\* data is a non-empty array
ListBody ==
  /\ mockFetch.transport
  /\ mockFetch.ok
  /\ Tag(mockFetch.json.object) = "str"
  /\ mockFetch.json.isArray
  /\ mockFetch.json.data # <<>>

\* fetchModels has settled, one way or the other
FetchSettled == fetchResult.status # "none"

\* C12: a response with a string top-level object whose entries each carry only
\* a string id and a string object passes validation, and the fetch succeeds
\* with one model per entry.
C12_IdAndObjectSuffice ==
  (/\ FetchSettled
   /\ ListBody
   /\ \A i \in 1..Len(mockFetch.json.data) : OnlyIdAndObject(mockFetch.json.data[i]))
  => /\ fetchResult.status = "ok"
     /\ Len(fetchResult.models) = Len(mockFetch.json.data)

\* the message of the Error fetchModels rejected with
Rejection == fetchResult.error.message

\* C13: a response in which some entry lacks the id field, or has an id that is
\* not a string, makes the fetch fail with the validation error 'Invalid API
\* response format', which is neither the HTTP-status failure nor the
\* empty-catalog failure.
C13_MissingIdIsValidationError ==
  (/\ FetchSettled
   /\ ListBody
   /\ \E i \in 1..Len(mockFetch.json.data) : Tag(mockFetch.json.data[i].id) # "str")
  => /\ fetchResult.status = "threw"
     /\ MessageMatches(Rejection, "Invalid API response format")
     /\ ~MessageMatches(Rejection, "Failed to fetch NanoGPT models")
     /\ ~MessageMatches(Rejection, "No models data found")

\* C14: a response in which some entry lacks a string object field is rejected
\* with a validation error, even when the top-level object and every other
\* field of every entry are valid.
C14_EntryObjectRequired ==
  (/\ FetchSettled
   /\ ListBody
   /\ \E i \in 1..Len(mockFetch.json.data) : Tag(mockFetch.json.data[i].object) # "str")
  => /\ fetchResult.status = "threw"
     /\ lastError.kind = "validation"

\* the stub answers 200 with a body that validates and has no entries
EmptyCatalog ==
  /\ mockFetch.transport
  /\ mockFetch.ok
  /\ NanoGPTModelsResponseSchema(mockFetch.json)
  /\ Len(mockFetch.json.data) = 0

\* C15: a response that validates but has a zero-length data array makes the
\* fetch fail with the empty-catalog error 'No models data found', which is
\* neither the validation error nor the HTTP-status error; and the fetch never
\* resolves with an empty list of models.
C15_EmptyCatalogError ==
  /\ (FetchSettled /\ EmptyCatalog) =>
       /\ fetchResult.status = "threw"
       /\ lastError.kind = "empty"
       /\ MessageMatches(Rejection, "No models data found")
       /\ ~MessageMatches(Rejection, "API response validation failed")
       /\ ~MessageMatches(Rejection, "Invalid API response format")
       /\ ~MessageMatches(Rejection, "HTTP ")
       /\ ~MessageMatches(Rejection, "Failed to fetch NanoGPT models")
  /\ fetchResult.status = "ok" => fetchResult.models # <<>>

C15_Witness ==
  /\ EmptyCatalog
  /\ phase = "fallback"
  /\ fetchResult.status = "threw"
  /\ MessageMatches(Rejection, "No models data found")
  /\ result.status = "returned"
  /\ result.infos = <<>>

\* C16: whenever the upstream answers with a non-OK HTTP status, fetchModels
\* rejects with an Error whose message says 'Failed to fetch NanoGPT models' and
\* carries the status code; it does not resolve with models.
C16_HttpFailureMessage ==
  (FetchSettled /\ mockFetch.transport /\ ~mockFetch.ok) =>
    /\ fetchResult.status = "threw"
    /\ fetchResult.models = <<>>
    /\ MessageMatches(Rejection, "Failed to fetch NanoGPT models")
    /\ MessageMatches(Rejection, ToString(mockFetch.status))

\* normalization ran on the models of a resolved fetch
Normalized == fetchResult.status = "ok" /\ result.status = "returned"

\* C17: normalization never drops an entry: every entry of a validated response
\* yields exactly one descriptor in the result, in the order of the response.
C17_NoEntryDropped ==
  Normalized =>
    /\ Len(result.infos) = Len(fetchResult.models)
    /\ \A i \in 1..Len(result.infos) :
         result.infos[i].id = Val(fetchResult.models[i].id)

\* the models normalization kept, in order: those whose id is not empty
Kept == SelectSeq(fetchResult.models, LAMBDA m : Val(m.id) # "")

\* C18: for every normalized descriptor, maxInputTokens is the entry's
\* context_length when that is a number and 128000 when it is absent or null;
\* maxOutputTokens is max_output_length when that is a number and 16000 when it
\* is absent or null.
C18_LimitDefaults ==
  Normalized =>
    /\ Len(result.infos) = Len(Kept)
    /\ \A i \in 1..Len(result.infos) :
         /\ result.infos[i].id = Val(Kept[i].id)
         /\ Tag(Kept[i].context_length) = "num" =>
              result.infos[i].maxInputTokens = Val(Kept[i].context_length)
         /\ Tag(Kept[i].context_length) \in {"absent", "null"} =>
              result.infos[i].maxInputTokens = 128000
         /\ Tag(Kept[i].max_output_length) = "num" =>
              result.infos[i].maxOutputTokens = Val(Kept[i].max_output_length)
         /\ Tag(Kept[i].max_output_length) \in {"absent", "null"} =>
              result.infos[i].maxOutputTokens = 16000

C18_Witness ==
  /\ Normalized
  /\ phase = "primary"
  /\ mockFetch.json.data = <<NoToolsEntry, ZeroLimitsEntry>>
  /\ Len(result.infos) = 2
  /\ result.infos[1].maxInputTokens = 128000
  /\ result.infos[1].maxOutputTokens = 16000
  /\ result.infos[2].maxInputTokens = 0
  /\ result.infos[2].maxOutputTokens = 0

C20_ToolCallingFromFeatures ==
  Normalized =>
    \A i \in 1..Len(result.infos) :
      /\ i <= Len(Kept)
      /\ result.infos[i].capabilities.toolCalling =
           ("tools" \in Val(Kept[i].supported_features))

\* C21: model ids are unique within a single fetch result: the descriptor list
\* returned by one resolution never holds two descriptors with the same id.
C21_UniqueIds ==
  result.status = "returned" =>
    \A i, j \in 1..Len(result.infos) :
      i # j => result.infos[i].id # result.infos[j].id

\* C22: when no API key is available and the call is silent,
\* prepareLanguageModelChatInformation returns an empty list and issues no
\* network request.
C22_SilentNoKey ==
  (pc # "idle" /\ silent /\ Falsy(secrets)) =>
    /\ pc = "done"
    /\ result = [status |-> "returned", infos |-> <<>>]
    /\ requests = <<>>
    /\ ~FetchSettled

C22_Witness ==
  /\ pc = "done"
  /\ silent
  /\ ~secrets.present
  /\ result.status = "returned"
  /\ result.infos = <<>>
  /\ requests = <<>>

\* the step in which ensureApiKey runs up to its return or to the input box
EnsureApiKeyStep == pc = "idle" /\ pc' # "idle"

\* C23: ensureApiKey with silent = true and no stored key returns undefined
\* without prompting and leaves the secret store unchanged; with a stored key it
\* returns that key without prompting, in either mode.
C23_EnsureApiKey ==
  [][EnsureApiKeyStep =>
       /\ (silent' /\ ~secrets.present) =>
            /\ pc' = "done"
            /\ apiKey' = <<>>
            /\ secrets' = secrets
       /\ (secrets.present /\ secrets.val # <<>>) =>
            /\ pc' = "fetch"
            /\ apiKey' = secrets.val
            /\ secrets' = secrets]_vars

C23_Witness ==
  /\ pc = "fetch"
  /\ silent
  /\ secrets.present
  /\ apiKey = secrets.val
  /\ requests = <<>>

\* C24: the category a resolution attempts first is the one in force when the
\* caller invoked it; a configuration change made by the user while the
\* resolution runs does not change which category it tries first.
C24_ConfigSnapshotPerCall ==
  requests # <<>> => requests[1] = getCurrentModelType(callCfg)

(* --------------------- claims about feature composition ---------------- *)
\* the toggles a logged call composed from, overrides applied
Composed(entry) == Effective(entry.input.toggles, entry.input.override)

\* the logged calls that produced a request
Emitted == {i \in 1..Len(composeLog) : composeLog[i].outcome.ok}

\* every token the memory marker can be
MemoryTokens ==
  {":memory"} \cup {":memory-" \o ToString(d) : d \in 1..365}

\* C25: suffix tokens are appended in a fixed order, search marker first and
\* memory marker second, for every toggle combination: standard search gives
\* ':online', deep search gives ':online/linkup-deep', and with both search and
\* memory enabled the search token precedes the memory token.
C25_SearchBeforeMemory ==
  \A i \in Emitted :
    LET e == composeLog[i]
        t == Composed(e)
        searchToken == IF t.search.mode = "standard"
                         THEN ":online" ELSE ":online/linkup-deep"
    IN /\ (t.search.enabled /\ ~t.memory.enabled) =>
            e.outcome.request.suffix = e.input.baseId \o searchToken
       /\ (t.search.enabled /\ t.memory.enabled) =>
            \E m \in MemoryTokens :
              e.outcome.request.suffix = e.input.baseId \o searchToken \o m

C25_Witness ==
  \E i, j \in Emitted :
    /\ composeLog[i].input.toggles = Toggles(TRUE, "deep", TRUE, 90)
    /\ composeLog[i].outcome.request.suffix = "gpt-4o:online/linkup-deep:memory-90"
    /\ composeLog[j].input.toggles = Toggles(TRUE, "deep", FALSE, 30)
    /\ composeLog[j].outcome.request.suffix = "gpt-4o:online/linkup-deep"

OutOfRange(t) ==
  \/ t.memory.days < 1
  \/ t.memory.days > 365
  \/ t.reasoning.effort \notin {"low", "medium", "high"}
  \/ t.search.mode \notin {"standard", "deep"}
  \/ t.byok.provider \notin {"openai", "anthropic", "google"}

\* C27: compose validates all toggles before emitting any token: when days is
\* outside [1,365], or effort, mode or provider is outside its enumerated set,
\* the call raises a ValidationError, produces no ComposedRequest, not even a
\* partial one, and changes nothing else.
C27_ValidationBeforeEmission ==
  [][composeLog' # composeLog =>
       LET e == composeLog'[Len(composeLog')]
       IN OutOfRange(Composed(e)) =>
            /\ ~e.outcome.ok
            /\ e.outcome.error = "ValidationError"
            /\ e.outcome.request = NoRequest
            /\ SubSeq(composeLog', 1, Len(composeLog)) = composeLog
            /\ UNCHANGED <<cfgModelTypes, settings, ui, updates, serviceVars>>]_vars

C27_Witness ==
  \E i, j \in 1..Len(composeLog) :
    /\ composeLog[i].input.toggles.memory.days = 400
    /\ composeLog[i].outcome = [ok |-> FALSE, error |-> "ValidationError",
                                request |-> NoRequest]
    /\ composeLog[j].input.override.days = NumF(400)
    /\ ~composeLog[j].outcome.ok

C29_MemoryDaysInRange ==
  [][(\/ settings'[MemoryDaysKey] # settings[MemoryDaysKey]
      \/ ui.pc = "memoryDays" /\ ui'.notice = "Memory enabled")
     => /\ Tag(settings'[MemoryDaysKey]) = "num"
        /\ Val(settings'[MemoryDaysKey]) \in 1..365]_vars

C29_Witness ==
  /\ ui = [pc |-> "closed", notice |-> "Memory enabled"]
  /\ settings[MemoryEnabledKey] = BoolF(TRUE)
  /\ settings[MemoryDaysKey] = NumF(12)

\* C30: with silent = true, prepareLanguageModelChatInformation never shows a
\* notification or a prompt, whatever the outcome of the fetch.
C30_SilentShowsNothing ==
  silent => (notifications = <<>> /\ pc # "prompt")

(* ------------------ claims about termination and frames ---------------- *)
\* fetchModels is running
InFetchModels == pc \in {"fetch", "attempt", "inflight", "backoff"}

\* C31: fetchModels always terminates when every request and every backoff
\* timer completes; in all it issues at most 3 * maxAttempts = 9 requests and
\* suspends at most 3 * (maxAttempts - 1) = 6 times, never after the final
\* failed attempt of a category.
C31_Terminates ==
  /\ [](/\ Len(requests) <= 9
        /\ Len(delays) <= 6
        /\ \A i \in 1..Len(delays) : delays[i].after < RETRY_CONFIG.maxAttempts
        /\ \A c \in ModelType :
             Len(SelectSeq(delays, LAMBDA d : d.category = c)) < RETRY_CONFIG.maxAttempts)
  /\ (InFetchModels ~> pc = "done")

C31_Witness ==
  /\ pc = "done"
  /\ fetchResult.status = "threw"
  /\ Len(requests) = 9
  /\ Len(delays) = 6


\* C32: when the preferred category succeeds, on whichever attempt of its
\* retry budget, fetchModels has shown no notification and every request it
\* sent went to the preferred category.
C32_PrimarySuccessIsQuiet ==
  (fetchResult.status = "ok" /\ phase = "primary") =>
    /\ fetchResult.endpoint = getCurrentModelType(callCfg)
    /\ notifications = <<>>
    /\ Len(requests) \in 1..RETRY_CONFIG.maxAttempts
    /\ \A i \in 1..Len(requests) : requests[i] = getCurrentModelType(callCfg)

C32_Witness ==
  /\ fetchResult.status = "ok"
  /\ phase = "primary"
  /\ attempt = RETRY_CONFIG.maxAttempts
  /\ Len(requests) = RETRY_CONFIG.maxAttempts
  /\ Len(delays) = RETRY_CONFIG.maxAttempts - 1
  /\ notifications = <<>>


\* C33: prepareLanguageModelChatInformation never propagates a failure of
\* fetchModels: whenever fetchModels threw (HTTP failure, validation failure,
\* empty catalog, all endpoints exhausted), the call has completed normally
\* and returned the empty list.
C33_FetchFailureReturnsEmpty ==
  fetchResult.status = "threw" =>
    /\ pc = "done"
    /\ result.status = "returned"
    /\ result.infos = <<>>

C33_Witness ==
  /\ fetchResult.status = "threw"
  /\ lastError.kind = "validation"
  /\ Len(requests) = 3 * RETRY_CONFIG.maxAttempts
  /\ result = [status |-> "returned", infos |-> <<>>]


\* the string has neither leading nor trailing white space
Trimmed(t) == Trim(t) = t

\* C34: starting from an empty secret store, whatever ensureApiKey calls and
\* Set API Key commands have run, the stored API key is either absent or a
\* non-empty string without leading or trailing white space.
C34_StoredKeyTrimmed ==
  secrets.present => secrets.val # <<>> /\ Trimmed(secrets.val)

C34_Witness ==
  /\ secrets = Secret(<<"k", " ", "j">>)
  /\ ui.notice = "NanoGPT API key saved"
  /\ pc = "done"
  /\ fetchResult.status = "ok"

\* what the claim prescribes for the input box of Set API Key resolving with e
SetApiKeyEffect(e) ==
  /\ ~e.given => secrets' = secrets
  /\ (e.given /\ Trim(e.text) = <<>>) => secrets' = NoSecret
  /\ (e.given /\ Trim(e.text) # <<>>) => secrets' = Secret(Trim(e.text))
  /\ UNCHANGED <<settings, cfgModelTypes, updates, composeLog, keyFrame>>

\* C35: the Set API Key command leaves the stored key unchanged when the input
\* is cancelled, deletes it when the input is empty or only white space, and
\* otherwise replaces it with the trimmed input; no setting and nothing else of
\* the service is modified.
C35_SetApiKeyFrame ==
  [][\A e \in KeyInputs : SetApiKeyEntered(e) => SetApiKeyEffect(e)]_vars

C35_Witness ==
  /\ secrets = NoSecret
  /\ ui = [pc |-> "closed", notice |-> "NanoGPT API key cleared"]
  /\ pc = "done"
  /\ fetchResult.status = "ok"


\* the stored temperature of every model but modelId is the same before and
\* after the step
OthersKept(modelId) ==
  \A m \in TempModels \ {modelId} :
    getModelTemperature(settings', m) = getModelTemperature(settings, m)

\* C36: once setModelTemperature(m, t) has completed, getModelTemperature(m)
\* returns t (undefined when t is undefined); when no other write landed since
\* the call read the map, the stored temperature of every other model is
\* unchanged.
C36_SetThenGet ==
  [][UpdateApplied =>
       /\ getModelTemperature(settings', Head(updates).modelId) = Head(updates).temperature
       /\ Head(updates).existing = settings[TemperaturesKey][2] =>
            OthersKept(Head(updates).modelId)]_vars

C36_Witness ==
  /\ updates = <<>>
  /\ ui.pc = "closed"
  /\ ui.notice = "Temperature reset to default"
  /\ getModelTemperature(settings, "m1") = NoNum
  /\ getModelTemperature(settings, "m2") = NumF(7)

\* C37: two setModelTemperature calls for distinct models that overlap in time
\* never lose an update: when the write of one call lands, the temperature the
\* other call has stored for its model is still in the map.
C37_NoLostUpdate ==
  [][(UpdateApplied /\ Head(updates).temperature # NoNum) =>
       \A m \in TempModels \ {Head(updates).modelId} :
         getModelTemperature(settings, m) # NoNum =>
           getModelTemperature(settings', m) = getModelTemperature(settings, m)]_vars


\* the first prompt of one of the four feature dialogs is dismissed
FirstPromptCancelled ==
  \/ ReasoningStatePicked("dismissed")
  \/ MemoryStatePicked("dismissed")
  \/ SearchStatePicked("dismissed")
  \/ ByokStatePicked("dismissed")

\* C38: in configureReasoning, configureMemory, configureSearch and
\* configureBYOK, cancelling the first prompt leaves every setting unchanged;
\* cancelling the second prompt after Enable leaves the enabled flag written as
\* true and the sub-setting unchanged; Disable never changes the sub-setting.
C38_CancelAndDisableFrame ==
  [][/\ FirstPromptCancelled => settings' = settings
     /\ ReasoningEffortPicked("dismissed") =>
          /\ settings[ReasoningEnabledKey] = BoolF(TRUE)
          /\ settings' = settings
     /\ MemoryDaysEntered([given |-> FALSE, text |-> <<>>]) =>
          /\ settings[MemoryEnabledKey] = BoolF(TRUE)
          /\ settings' = settings
     /\ SearchModePicked("dismissed") =>
          /\ settings[SearchEnabledKey] = BoolF(TRUE)
          /\ settings' = settings
     /\ ByokProviderPicked("dismissed") =>
          /\ settings[ByokEnabledKey] = BoolF(TRUE)
          /\ settings' = settings
     /\ ReasoningStatePicked("Disable") =>
          settings'[ReasoningEffortKey] = settings[ReasoningEffortKey]
     /\ MemoryStatePicked("Disable") =>
          settings'[MemoryDaysKey] = settings[MemoryDaysKey]
     /\ SearchStatePicked("Disable") =>
          settings'[SearchModeKey] = settings[SearchModeKey]
     /\ ByokStatePicked("Disable") =>
          settings'[ByokProviderKey] = settings[ByokProviderKey]]_vars

\* search was enabled and its mode prompt cancelled, memory was disabled after
\* its days had been set, BYOK is enabled with a provider
C38_Witness ==
  /\ ui = [pc |-> "closed", notice |-> "Memory disabled"]
  /\ settings[ByokEnabledKey] = BoolF(TRUE)
  /\ settings[ByokProviderKey] = StrF("openai")
  /\ settings[MemoryEnabledKey] = BoolF(FALSE)
  /\ settings[MemoryDaysKey] = NumF(365)
  /\ settings[SearchEnabledKey] = BoolF(TRUE)
  /\ settings[SearchModeKey] = NoStr


\* what a picker description can start with: "Default" or a temperature
TempTexts == {"Default"} \cup {ToFixed2(t) : t \in 0..20}

\* the description carries the annotation "Mem: <days>d"
HasMem(description, days) ==
  \E base \in TempTexts, search \in {"", " / Search"} :
    description = base \o " / Mem: " \o ToString(days) \o "d" \o search

\* the description ends with the annotation "Search"
HasSearch(description) ==
  \E base \in TempTexts,
     mem \in {"", " / Mem: " \o DaysText(settings[DocMemoryDaysKey]) \o "d",
              " / Mem: " \o DaysText(settings[MemoryDaysKey]) \o "d"} :
    description = base \o mem \o " / Search"

\* C39: the setting the configuration UI writes for a feature is the setting
\* that is documented and read elsewhere: once configureMemory has enabled
\* memory with N days, nanogpt.memory.enabled and nanogpt.memory.defaultDays
\* hold true and N and the model picker annotates every entry with "Mem: Nd";
\* once configureSearch has enabled search, the picker shows "Search".
C39_UiWritesWhatIsRead ==
  /\ (ui.pc = "closed" /\ ui.notice = "Memory enabled") =>
       /\ settings[DocMemoryEnabledKey] = BoolF(TRUE)
       /\ settings[DocMemoryDaysKey] = settings[MemoryDaysKey]
  /\ (/\ ui.pc = "tempModel"
      /\ settings[MemoryEnabledKey] = BoolF(TRUE)
      /\ settings[MemoryDaysKey][1] = "num") =>
       \A i \in 1..Len(ui.items) :
         HasMem(ui.items[i].description, settings[MemoryDaysKey][2])
  /\ (ui.pc = "tempModel" /\ settings[SearchEnabledKey] = BoolF(TRUE)) =>
       \A i \in 1..Len(ui.items) : HasSearch(ui.items[i].description)

====
